---------------------------- MODULE Spec2Model ----------------------------
(***************************************************************************)
(* ORBIS personal finance tracker: the App's transaction store and import  *)
(* batches (App.tsx, ImportManager.tsx, TransactionForm/Manager), the      *)
(* category classifier, the header insight and the daily tip               *)
(* (services/insights.ts), the OFX / CSV statement parsers and the backup  *)
(* restore (services/storage.ts), and the dashboard's period filter,       *)
(* summary, monthly average, balance history and patrimony total           *)
(* (services/analytics.ts, services/storage.ts).                           *)
(*                                                                         *)
(* Strings of the program are sequences of one-character strings, so that  *)
(* trimming, lower-casing, splitting and substring search are computed     *)
(* character by character.  Identifiers (UUIDs, category ids, enum values) *)
(* are atomic strings.  JavaScript numbers that carry money are decimals   *)
(* [nan, m, e] with value m / 10^e.  The sums of getSummary are computed   *)
(* as IEEE 754 binary64 values; the ratios of getSmartInsight are exact    *)
(* fractions of whole amounts.                                             *)
(***************************************************************************)
EXTENDS Integers, Sequences, FiniteSets, TLC

VARIABLES
    \* ---- App.tsx state and localStorage ----
    transactions,      \* useState<Transaction[]> (the array object of the current render)
    importBatches,     \* useState<ImportBatch[]>
    stTransactions,    \* localStorage orbis_transactions_v1 (parsed)
    stBatches,         \* localStorage orbis_import_batches_v1 (parsed)
    activeTab,         \* useState: 'dashboard' | 'income' | 'import' (the tabs with handlers)
    ops,               \* number of handler runs so far
    nextId,            \* number of UUIDs handed out by crypto.randomUUID()
    clock,             \* Date.now()
    \* ---- TransactionForm: the handleSubmit that is waiting on its 600 ms timer ----
    pendingSave,
    \* ---- ImportManager.tsx state ----
    step, file, fileContent, parsedData,
    \* ---- the App handler that completed last (name and argument) ----
    lastOp,
    \* ---- a direct call of a service function: arguments, position, result ----
    pc,                \* "idle" | "call" | "done"
    description,       \* suggestCategory: description argument
    history,           \* suggestCategory: the caller's transactions array
    suggested,         \* suggestCategory: return value
    content,           \* parseOFX / parseCSV: content argument
    mapping,           \* parseCSV: mapping argument
    results,           \* parseOFX / parseCSV: return value
    patrimony,         \* getSmartInsight / getSummary: patrimonyTransactions argument
    callTime,          \* new Date() of the call: [y, m, d, atMidnight]
    window,            \* filterTransactions: days argument
    out,               \* return value of an analytics / insight call: [fn, value]
    tipStore,          \* localStorage orbis_insight_date / orbis_insight_text
    calls,             \* the getSmartInsight calls made so far: {[day, out]}
    \* ---- the lists the backup restore also writes, and its document ----
    patrimonyTransactions,   \* useState<PatrimonyTransaction[]>
    categories,              \* useState<Category[]>
    stPatrimony,             \* localStorage orbis_patrimony_v1 (parsed)
    stCategories,            \* localStorage orbis_categories_v1 (parsed, or absent)
    backup                   \* handleImport: the chosen file and how the restore ended

appVars == <<transactions, importBatches, stTransactions, stBatches, activeTab, ops, nextId, clock,
             pendingSave, step, file, fileContent, parsedData, lastOp>>
parserVars == <<description, suggested, content, mapping, results>>
fnVars == <<patrimony, callTime, window, out, tipStore, calls>>
callVars == <<pc, history, parserVars, fnVars>>
backupVars == <<patrimonyTransactions, categories, stPatrimony, stCategories, backup>>
vars == <<appVars, callVars, backupVars>>

-----------------------------------------------------------------------------
(* Bounds of the model *)

MaxTx == 2          \* longest transaction list the App actions build
MaxIds == 4         \* UUIDs handed out in one behaviour
MaxClock == 1       \* Date.now() ranges over 0..MaxClock
MaxOps == 10        \* handler runs of one session
MaxHist == 2        \* longest history array given to a direct suggestCategory call
MaxBlocks == 1      \* <STMTTRN> blocks in an OFX text given to a direct parseOFX call
MaxRows == 1        \* data rows in a CSV text given to a direct parseCSV call
MaxDays == 2        \* calendar days on which getSmartInsight is called
MaxPatrimony == 3   \* longest patrimony list handleAddPatrimony builds
MaxReport == 3      \* longest list given to getAverageMonthlyExpenses / getBalanceHistory

-----------------------------------------------------------------------------
(* JavaScript strings *)

Str(s) == [i \in 1..Len(s) |-> SubSeq(s, i, i)]

undefined == "undefined"
null == "null"

Upper == Str("ABCDEFGHIJKLMNOPQRSTUVWXYZ")
Lower == Str("abcdefghijklmnopqrstuvwxyz")
Digits == Str("0123456789")

DigitValue == [c \in {Digits[i] : i \in 1..10} |->
                  (CHOOSE i \in 1..10 : Digits[i] = c) - 1]

IsDigit(c) == c \in DOMAIN DigitValue
DigitVal(c) == DigitValue[c]
IsSpace(c) == c \in {" ", "\t", "\n", "\r"}

LowerOf == [c \in {Upper[i] : i \in 1..26} |->
               Lower[CHOOSE i \in 1..26 : Upper[i] = c]]

LowerChar(c) == IF c \in DOMAIN LowerOf THEN LowerOf[c] ELSE c

Min(S) == CHOOSE i \in S : \A j \in S : i <= j
Max(S) == CHOOSE i \in S : \A j \in S : i >= j

\* String.prototype.toLowerCase
toLowerCase(s) == [i \in 1..Len(s) |-> LowerChar(s[i])]

\* String.prototype.trim
trim(s) ==
    LET idx == {i \in 1..Len(s) : ~IsSpace(s[i])}
    IN IF idx = {} THEN <<>> ELSE SubSeq(s, Min(idx), Max(idx))

StartsAt(s, sub, i) ==
    /\ i + Len(sub) - 1 <= Len(s)
    /\ \A k \in 1..Len(sub) : s[i + k - 1] = sub[k]

\* the positions at which sub occurs in s
Occurrences(s, sub) == {i \in 1..(Len(s) - Len(sub) + 1) : StartsAt(s, sub, i)}

\* String.prototype.includes
includes(s, sub) == \E i \in 1..(Len(s) - Len(sub) + 1) : StartsAt(s, sub, i)

\* String.prototype.indexOf, 1-based; 0 when absent (JavaScript: -1)
indexOf(s, sub) ==
    LET occ == Occurrences(s, sub) IN IF occ = {} THEN 0 ELSE Min(occ)

\* String.prototype.lastIndexOf, 1-based; 0 when absent
lastIndexOf(s, sub) ==
    LET occ == Occurrences(s, sub) IN IF occ = {} THEN 0 ELSE Max(occ)

\* String.prototype.split(separator) for a non-empty separator
RECURSIVE split(_, _)
split(s, sep) ==
    LET i == indexOf(s, sep)
    IN IF i = 0 THEN <<s>>
       ELSE <<SubSeq(s, 1, i - 1)>> \o split(SubSeq(s, i + Len(sep), Len(s)), sep)

\* String.prototype.substring(a, b) with 0-based a, exclusive b, clamped to the length
substring(s, a, b) ==
    LET lo == IF a > Len(s) THEN Len(s) ELSE a
        hi == IF b > Len(s) THEN Len(s) ELSE b
    IN SubSeq(s, lo + 1, hi)

-----------------------------------------------------------------------------
(* services/insights.ts: the category classifier *)

KEYWORD_TABLE == <<
  <<"cat_4", <<"mercado", "supermercado", "açougue", "padaria", "ifood", "restaurante",
               "burger", "pizza", "lanche", "almoço", "jantar", "cafe", "assai",
               "carrefour", "pão">> >>,
  <<"cat_6", <<"uber", "99", "taxi", "onibus", "metro", "posto", "gasolina",
               "abastecimento", "estacionamento", "pedagio", "ipva", "mechanico">> >>,
  <<"cat_11", <<"netflix", "spotify", "prime", "disney", "hbo", "globo", "youtube",
                "apple", "google", "aws", "chatgpt", "tv", "assinatura", "cloud">> >>,
  <<"cat_8", <<"farmacia", "drogaria", "medico", "consulta", "exame", "laboratorio",
               "dentista", "psicologo", "hospital", "remedio">> >>,
  <<"cat_5", <<"aluguel", "condominio", "luz", "agua", "energia", "enel", "internet",
               "vivo", "claro", "tim", "oi", "net", "manutenção", "casa">> >>,
  <<"cat_7", <<"cinema", "ingresso", "show", "teatro", "bar", "cerveja", "steam",
               "playstation", "xbox", "jogo", "viagem", "hotel">> >>,
  <<"cat_9", <<"curso", "faculdade", "escola", "mensalidade", "livro", "papelaria",
               "udemy", "alura", "ingles">> >>,
  <<"cat_3", <<"investimento", "cdb", "fii", "ação", "tesouro", "bitcoin", "crypto",
               "corretora">> >>,
  <<"cat_1", <<"salario", "pagamento", "remuneração", "empresa">> >> >>

\* the dictionary with its keywords as character sequences
KEYWORD_MAP ==
    [i \in 1..Len(KEYWORD_TABLE) |->
        <<KEYWORD_TABLE[i][1],
          [k \in 1..Len(KEYWORD_TABLE[i][2]) |-> Str(KEYWORD_TABLE[i][2][k])]>>]

\* Array.prototype.sort((a, b) => b.createdAt - a.createdAt): stable, most recent first
RECURSIVE InsertByCreatedAtDesc(_, _)
InsertByCreatedAtDesc(sorted, t) ==
    IF sorted = <<>> THEN <<t>>
    ELSE IF sorted[Len(sorted)].createdAt >= t.createdAt
         THEN Append(sorted, t)
         ELSE Append(InsertByCreatedAtDesc(SubSeq(sorted, 1, Len(sorted) - 1), t),
                     sorted[Len(sorted)])

RECURSIVE SortByCreatedAtDesc(_)
SortByCreatedAtDesc(arr) ==
    IF arr = <<>> THEN <<>>
    ELSE InsertByCreatedAtDesc(SortByCreatedAtDesc(SubSeq(arr, 1, Len(arr) - 1)),
                               arr[Len(arr)])

\* the predicate of .find(): tDesc.includes(term) || term.includes(tDesc)
HistoryMatches(t, term) ==
    LET tDesc == toLowerCase(t.description)
    IN includes(tDesc, term) \/ includes(term, tDesc)

\* keywords.some(k => term.includes(k))
KeywordHit(entry, term) ==
    \E k \in 1..Len(entry[2]) : includes(term, entry[2][k])

\* the for-loop returning the last entry that has a keyword in the term
KeywordCategory_LastHit(term) ==
    LET hits == {i \in 1..Len(KEYWORD_MAP) : KeywordHit(KEYWORD_MAP[i], term)}
    IN IF hits = {} THEN null
       ELSE KEYWORD_MAP[Max(hits)][1]

\* the for-loop over Object.entries(KEYWORD_MAP)
KeywordCategory(term) ==
    LET hits == {i \in 1..Len(KEYWORD_MAP) : KeywordHit(KEYWORD_MAP[i], term)}
    IN IF hits = {} THEN null
       ELSE KEYWORD_MAP[Min(hits)][1]

\* a lookup that leaves only the newest record in the caller's array
SortedHistory_NewestOnly(desc, arr) ==
    IF Len(toLowerCase(trim(desc))) < 3 \/ Len(arr) = 0 THEN arr
    ELSE <<SortByCreatedAtDesc(arr)[1]>>

\* What the in-place sort leaves in the caller's array
SortedHistory(desc, arr) ==
    IF Len(toLowerCase(trim(desc))) < 3 THEN arr ELSE SortByCreatedAtDesc(arr)

\* suggestCategory with the sort left out: .find() scans the array as it stands
suggestCategory_NoSort(desc, arr) ==
    LET term == toLowerCase(trim(desc))
        found == {i \in 1..Len(arr) : HistoryMatches(arr[i], term)}
    IN IF Len(term) < 3 THEN null
       ELSE IF found # {}
            THEN arr[CHOOSE i \in found : \A j \in found : i <= j].categoryId
            ELSE KeywordCategory(term)

\* InsightService.suggestCategory: the return value
suggestCategory(desc, arr) ==
    LET term == toLowerCase(trim(desc))
        sorted == SortByCreatedAtDesc(arr)
        found == {i \in 1..Len(sorted) : HistoryMatches(sorted[i], term)}
    IN IF Len(term) < 3 THEN null
       ELSE IF found # {}
            THEN sorted[CHOOSE i \in found : \A j \in found : i <= j].categoryId
            ELSE KeywordCategory(term)

-----------------------------------------------------------------------------
(* JavaScript numbers that carry money: decimals m / 10^e, or NaN *)

NaN == [nan |-> TRUE, m |-> 0, e |-> 0]

RECURSIVE Norm(_, _)
Norm(m, e) ==
    IF e > 0 /\ m % 10 = 0 THEN Norm(m \div 10, e - 1)
    ELSE [nan |-> FALSE, m |-> m, e |-> e]

isNaN(x) == x.nan

\* Math.abs
abs(x) == IF x.nan THEN NaN ELSE [x EXCEPT !.m = IF x.m < 0 THEN -x.m ELSE x.m]

\* x < 0 and x > 0 (both false for NaN)
IsNegative(x) == ~x.nan /\ x.m < 0
IsPositive(x) == ~x.nan /\ x.m > 0

RECURSIVE Pow10(_)
Pow10(n) == IF n = 0 THEN 1 ELSE 10 * Pow10(n - 1)

\* a + b on decimals
Plus(a, b) ==
    IF a.nan \/ b.nan THEN NaN
    ELSE LET e == IF a.e > b.e THEN a.e ELSE b.e
         IN Norm(a.m * Pow10(e - a.e) + b.m * Pow10(e - b.e), e)

\* the longest prefix of s made of characters satisfying the class
RECURSIVE DigitRun(_)
DigitRun(s) ==
    IF s # <<>> /\ IsDigit(s[1]) THEN <<s[1]>> \o DigitRun(Tail(s)) ELSE <<>>

RECURSIVE DigitsValue(_)
DigitsValue(ds) ==
    IF ds = <<>> THEN 0
    ELSE 10 * DigitsValue(SubSeq(ds, 1, Len(ds) - 1)) + DigitVal(ds[Len(ds)])

\* parseFloat on text without exponent letters: optional sign, digits, '.', digits;
\* the longest valid prefix decides, NaN when it holds no digit
parseFloat(str) ==
    LET s0 == IF trim(str) = <<>> THEN <<>>
              ELSE SubSeq(str, CHOOSE i \in 1..Len(str) :
                                  ~IsSpace(str[i]) /\ \A j \in 1..(i - 1) : IsSpace(str[j]),
                          Len(str))
        signed == s0 # <<>> /\ s0[1] \in {"-", "+"}
        neg == s0 # <<>> /\ s0[1] = "-"
        body == IF signed THEN Tail(s0) ELSE s0
        ip == DigitRun(body)
        rest == SubSeq(body, Len(ip) + 1, Len(body))
        fp == IF rest # <<>> /\ rest[1] = "." THEN DigitRun(Tail(rest)) ELSE <<>>
        mag == DigitsValue(ip \o fp)
    IN IF Len(ip) + Len(fp) = 0 THEN NaN
       ELSE Norm(IF neg THEN -mag ELSE mag, Len(fp))

\* Number(digits) / 100 of TransactionForm.handleAmountChange
CentsToAmount(cents) == Norm(cents, 2)

-----------------------------------------------------------------------------
(* crypto.randomUUID(): the n-th identifier handed out *)

UUID(n) == "uuid-" \o ToString(n)

-----------------------------------------------------------------------------
(* services/storage.ts: ImportService.parseOFX *)

IsAmountChar(c) == IsDigit(c) \/ c \in {".", "-"}
IsLineTerminator(c) == c \in {"\n", "\r"}

RECURSIVE AmountRun(_)
AmountRun(s) ==
    IF s # <<>> /\ IsAmountChar(s[1]) THEN <<s[1]>> \o AmountRun(Tail(s)) ELSE <<>>

RECURSIVE LineRun(_)
LineRun(s) ==
    IF s # <<>> /\ ~IsLineTerminator(s[1]) THEN <<s[1]>> \o LineRun(Tail(s)) ELSE <<>>

TagSTMTTRN == Str("<STMTTRN>")
TagTRNAMT == Str("<TRNAMT>")
TagDTPOSTED == Str("<DTPOSTED>")
TagMEMO == Str("<MEMO>")
TagNAME == Str("<NAME>")
Placeholder == Str("Transação")
Dash == Str("-")
Comma == Str(",")
Dot == Str(".")
Slash == Str("/")
Newline == Str("\n")

\* a failed String.prototype.match
NoMatch == [found |-> FALSE, text |-> <<>>]

\* block.match(/<TAG>(class+)/): whether it matched and the capture of the leftmost
\* match. kind "amount" is [\d.-]+, kind "digits" is \d+
MatchRun(block, tag, kind) ==
    LET ok(c) == IF kind = "amount" THEN IsAmountChar(c) ELSE IsDigit(c)
        at == {i \in 1..Len(block) :
                 /\ StartsAt(block, tag, i)
                 /\ i + Len(tag) <= Len(block)
                 /\ ok(block[i + Len(tag)])}
        i0 == CHOOSE i \in at : \A j \in at : i <= j
        after == SubSeq(block, i0 + Len(tag), Len(block))
    IN IF at = {} THEN NoMatch
       ELSE [found |-> TRUE,
             text |-> IF kind = "amount" THEN AmountRun(after) ELSE DigitRun(after)]

\* block.match(/<TAG>(.*)/): the rest of the line after the first <TAG>
MatchLine(block, tag) ==
    LET i0 == indexOf(block, tag)
    IN IF i0 = 0 THEN NoMatch
       ELSE [found |-> TRUE, text |-> LineRun(SubSeq(block, i0 + Len(tag), Len(block)))]

\* the description of one OFX block (memo, else name, else the placeholder), trimmed
OFXDescription(block) ==
    LET memoMatch == MatchLine(block, TagMEMO)
        nameMatch == MatchLine(block, TagNAME)
    IN trim(IF memoMatch.found THEN memoMatch.text
            ELSE IF nameMatch.found THEN nameMatch.text
            ELSE Placeholder)

\* does the block pass `if (amountMatch && dateMatch)`
OFXBlockOk(block) ==
    /\ MatchRun(block, TagTRNAMT, "amount").found
    /\ MatchRun(block, TagDTPOSTED, "digits").found

OrEmpty(cat) == IF cat = null THEN "" ELSE cat

\* the candidate pushed for one block; hist is the history array as the block finds it
OFXCandidate(block, hist, n) ==
    LET amountRaw == parseFloat(MatchRun(block, TagTRNAMT, "amount").text)
        dateRaw == substring(MatchRun(block, TagDTPOSTED, "digits").text, 0, 8)
        desc == OFXDescription(block)
    IN [id |-> UUID(n),
        dateISO |-> substring(dateRaw, 0, 4) \o Dash \o substring(dateRaw, 4, 6)
                      \o Dash \o substring(dateRaw, 6, 8),
        description |-> desc,
        amount |-> abs(amountRaw),
        type |-> IF IsNegative(amountRaw) THEN "expense" ELSE "income",
        categoryId |-> OrEmpty(suggestCategory(desc, hist))]

\* the forEach over the blocks: acc = [results, hist]; ids are handed out from n0 + 1
RECURSIVE OFXBlocks(_, _, _)
OFXBlocks(blocks, acc, n0) ==
    IF blocks = <<>> THEN acc
    ELSE IF OFXBlockOk(blocks[1])
         THEN OFXBlocks(Tail(blocks),
                [results |-> Append(acc.results,
                                OFXCandidate(blocks[1], acc.hist, n0 + Len(acc.results) + 1)),
                 hist |-> SortedHistory(OFXDescription(blocks[1]), acc.hist)],
                n0)
         ELSE OFXBlocks(Tail(blocks), acc, n0)

\* ImportService.parseOFX: [results |-> the candidates, hist |-> the caller's array after]
parseOFX(text, hist, n0) ==
    OFXBlocks(Tail(split(text, TagSTMTTRN)), [results |-> <<>>, hist |-> hist], n0)

-----------------------------------------------------------------------------
(* new Date(string).toISOString().split('T')[0] *)

InvalidDate == Str("Invalid Date")

\* The Date implementations a build can run on.  All read a well-formed
\* YYYY-MM-DD as that UTC day.  A YYYY-MM-DD whose day does not exist in its month
\* (but is at most 31) and a M/D/YY text are outside the ISO format, so the result
\* is implementation-defined: "strict" rejects the first, the "legacy" engines roll
\* it over and read both as local midnight, which is the same UTC day west of
\* Greenwich and the day before east of it.
DateEngines == {"strict", "legacyWest", "legacyEast"}

IsLeap(y) == (y % 4 = 0 /\ y % 100 # 0) \/ y % 400 = 0

DaysInMonth(y, m) ==
    IF m = 2 THEN (IF IsLeap(y) THEN 29 ELSE 28)
    ELSE IF m \in {4, 6, 9, 11} THEN 30 ELSE 31

IsCalendarDate(y, m, d) == m \in 1..12 /\ d \in 1..DaysInMonth(y, m)

AllDigits(s) == \A i \in 1..Len(s) : IsDigit(s[i])

Pad(n, w) ==
    LET ds == [i \in 1..w |-> Digits[((n \div Pow10(w - i)) % 10) + 1]]
    IN ds

FormatISO(y, m, d) == Pad(y, 4) \o Dash \o Pad(m, 2) \o Dash \o Pad(d, 2)

\* the day after / before a calendar date, as <<y, m, d>>
NextDay(y, m, d) ==
    IF d < DaysInMonth(y, m) THEN <<y, m, d + 1>>
    ELSE IF m < 12 THEN <<y, m + 1, 1>> ELSE <<y + 1, 1, 1>>

PrevDay(y, m, d) ==
    IF d > 1 THEN <<y, m, d - 1>>
    ELSE IF m > 1 THEN <<y, m - 1, DaysInMonth(y, m - 1)>> ELSE <<y - 1, 12, 31>>

RECURSIVE RollOver(_, _, _)
RollOver(y, m, d) ==
    IF d <= DaysInMonth(y, m) THEN <<y, m, d>>
    ELSE IF m < 12 THEN RollOver(y, m + 1, d - DaysInMonth(y, m))
    ELSE RollOver(y + 1, 1, d - DaysInMonth(y, m))

\* a local-midnight date seen in UTC
LocalToUTC(ymd, engine) ==
    IF engine = "legacyEast" THEN PrevDay(ymd[1], ymd[2], ymd[3]) ELSE ymd

\* a row that raises an exception, and a row that has its dateISO
Throws == [throws |-> TRUE, iso |-> <<>>]
Returns(iso) == [throws |-> FALSE, iso |-> iso]

\* new Date(text).toISOString().split('T')[0]: the ISO day, or the RangeError that
\* toISOString raises on an invalid date
DateToISODay(text, engine) ==
    LET isoShape == /\ Len(text) = 10 /\ text[5] = "-" /\ text[8] = "-"
                    /\ AllDigits(SubSeq(text, 1, 4)) /\ AllDigits(SubSeq(text, 6, 7))
                    /\ AllDigits(SubSeq(text, 9, 10))
        parts == split(text, Slash)
        usShape == /\ Len(parts) = 3
                   /\ \A i \in 1..3 : Len(parts[i]) \in 1..2 /\ AllDigits(parts[i])
    IN IF isoShape
       THEN LET y == DigitsValue(SubSeq(text, 1, 4))
                m == DigitsValue(SubSeq(text, 6, 7))
                d == DigitsValue(SubSeq(text, 9, 10))
            IN IF IsCalendarDate(y, m, d) THEN Returns(FormatISO(y, m, d))
               ELSE IF m \in 1..12 /\ d \in 1..31 /\ engine # "strict"
                    THEN LET r == LocalToUTC(RollOver(y, m, d), engine)
                         IN Returns(FormatISO(r[1], r[2], r[3]))
                    ELSE Throws
       ELSE IF usShape
       THEN LET m == DigitsValue(parts[1])
                d == DigitsValue(parts[2])
                yy == DigitsValue(parts[3])
                y == IF yy < 50 THEN 2000 + yy ELSE 1900 + yy
            IN IF m \in 1..12 /\ d \in 1..31
               THEN LET r == LocalToUTC(RollOver(y, m, d),
                                        IF engine = "strict" THEN "legacyWest" ELSE engine)
                    IN Returns(FormatISO(r[1], r[2], r[3]))
               ELSE Throws
       ELSE Throws

-----------------------------------------------------------------------------
(* services/storage.ts: ImportService.parseCSV *)

\* content.split(/\r?\n/)
RECURSIVE splitLines(_)
splitLines(s) ==
    LET i == indexOf(s, Newline)
    IN IF i = 0 THEN <<s>>
       ELSE <<SubSeq(s, 1, IF i > 1 /\ s[i - 1] = "\r" THEN i - 2 ELSE i - 1)>>
            \o splitLines(SubSeq(s, i + 1, Len(s)))

QuotesAfter(s, i) == Cardinality({j \in (i + 1)..Len(s) : s[j] = "\""})

\* line.split(/,(?=(?:(?:[^"]*"){2})*[^"]*$)/): a comma separates when an even
\* number of quotes follows it
RECURSIVE splitCells(_)
splitCells(s) ==
    LET seps == {i \in 1..Len(s) : s[i] = "," /\ QuotesAfter(s, i) % 2 = 0}
        i0 == CHOOSE i \in seps : \A j \in seps : i <= j
    IN IF seps = {} THEN <<s>>
       ELSE <<SubSeq(s, 1, i0 - 1)>> \o splitCells(SubSeq(s, i0 + 1, Len(s)))

\* c.replace(/^"|"$/g, '').trim()
cleanCell(c) ==
    LET a == IF c # <<>> /\ c[1] = "\"" THEN Tail(c) ELSE c
        b == IF a # <<>> /\ a[Len(a)] = "\"" THEN SubSeq(a, 1, Len(a) - 1) ELSE a
    IN trim(b)

\* s.replace(/[^\d.,-]/g, '')
RECURSIVE keepAmountChars(_)
keepAmountChars(s) ==
    IF s = <<>> THEN <<>>
    ELSE (IF IsDigit(s[1]) \/ s[1] \in {".", ",", "-"} THEN <<s[1]>> ELSE <<>>)
         \o keepAmountChars(Tail(s))

\* s.replace(/\./g, '')
RECURSIVE removeDots(_)
removeDots(s) ==
    IF s = <<>> THEN <<>>
    ELSE (IF s[1] = "." THEN <<>> ELSE <<s[1]>>) \o removeDots(Tail(s))

\* s.replace(',', '.'): the first comma only
replaceFirstComma(s) ==
    LET i == indexOf(s, Comma)
    IN IF i = 0 THEN s ELSE [s EXCEPT ![i] = "."]

\* lines 249-258: the cleaned amount text handed to parseFloat
cleanAmount(amountRawStr) ==
    LET amountClean == keepAmountChars(amountRawStr)
    IN IF indexOf(amountClean, Comma) > 0 /\ indexOf(amountClean, Dot) > 0
       THEN IF lastIndexOf(amountClean, Comma) > lastIndexOf(amountClean, Dot)
            THEN replaceFirstComma(removeDots(amountClean))
            ELSE amountClean
       ELSE IF indexOf(amountClean, Comma) > 0
            THEN replaceFirstComma(amountClean)
            ELSE amountClean

\* lines 235-242: the dateISO of a row, or the exception the row raises
csvDate(dateRaw, engine) ==
    IF includes(dateRaw, Slash)
    THEN LET parts == split(dateRaw, Slash)
         IN IF Len(parts) < 3 THEN Throws
            ELSE IF Len(parts[3]) = 4
                 THEN Returns(parts[3] \o Dash \o parts[2] \o Dash \o parts[1])
                 ELSE DateToISODay(dateRaw, engine)
    ELSE DateToISODay(dateRaw, engine)

maxIndex(mp) ==
    LET s == {mp.dateIndex, mp.descIndex, mp.amountIndex}
    IN CHOOSE i \in s : \A j \in s : i >= j

csvCols(line) ==
    LET raw == splitCells(line)
    IN [i \in 1..Len(raw) |-> cleanCell(raw[i])]

\* does the row reach results.push
CSVRowOk(line, mp, engine) ==
    LET cols == csvCols(line)
    IN /\ trim(line) # <<>>
       /\ ~(Len(cols) < maxIndex(mp))
       /\ mp.dateIndex < Len(cols)          \* else dateRaw.includes throws
       /\ mp.amountIndex < Len(cols)        \* else amountRawStr.replace throws
       /\ ~csvDate(cols[mp.dateIndex + 1], engine).throws
       /\ ~(csvDate(cols[mp.dateIndex + 1], engine).iso = InvalidDate)
       /\ ~isNaN(parseFloat(cleanAmount(cols[mp.amountIndex + 1])))

csvDescription(cols, mp) ==
    IF mp.descIndex < Len(cols) /\ cols[mp.descIndex + 1] # <<>>
    THEN cols[mp.descIndex + 1]
    ELSE Str("Importado")

CSVCandidate(line, mp, hist, n, engine) ==
    LET cols == csvCols(line)
        amountFloat == parseFloat(cleanAmount(cols[mp.amountIndex + 1]))
        desc == csvDescription(cols, mp)
    IN [id |-> UUID(n),
        dateISO |-> csvDate(cols[mp.dateIndex + 1], engine).iso,
        description |-> desc,
        amount |-> abs(amountFloat),
        type |-> IF IsNegative(amountFloat) THEN "expense" ELSE "income",
        categoryId |-> OrEmpty(suggestCategory(desc, hist))]

RECURSIVE CSVLines(_, _, _, _, _)
CSVLines(lines, mp, acc, n0, engine) ==
    IF lines = <<>> THEN acc
    ELSE IF CSVRowOk(lines[1], mp, engine)
         THEN CSVLines(Tail(lines), mp,
                [results |-> Append(acc.results,
                                CSVCandidate(lines[1], mp, acc.hist,
                                             n0 + Len(acc.results) + 1, engine)),
                 hist |-> SortedHistory(csvDescription(csvCols(lines[1]), mp), acc.hist)],
                n0, engine)
         ELSE CSVLines(Tail(lines), mp, acc, n0, engine)

\* ImportService.parseCSV: [results |-> the candidates, hist |-> the caller's array after]
parseCSV(text, mp, hist, n0, engine) ==
    CSVLines(splitLines(text), mp, [results |-> <<>>, hist |-> hist], n0, engine)

-----------------------------------------------------------------------------
(* types.ts: Transaction.  An absent importBatchId is undefined, isImported is  *)
(* TRUE when set and FALSE when absent, and originalDescription is Some(text)   *)
(* when set and None when absent.                                               *)

None == <<>>
Some(x) == <<x>>

ManualTransaction(id, desc, cat, created) ==
    [id |-> id, amount |-> CentsToAmount(1000), dateISO |-> Str("2024-01-10"),
     categoryId |-> cat, description |-> desc, type |-> "expense",
     recurrence |-> "unique", createdAt |-> created,
     importBatchId |-> undefined, isImported |-> FALSE, originalDescription |-> None]

RECURSIVE SeqsUpTo(_, _)
SeqsUpTo(S, n) ==
    IF n = 0 THEN {<<>>}
    ELSE LET shorter == SeqsUpTo(S, n - 1)
         IN shorter \cup {Append(q, x) : q \in {r \in shorter : Len(r) = n - 1}, x \in S}

RECURSIVE Flatten(_)
Flatten(ss) == IF ss = <<>> THEN <<>> ELSE ss[1] \o Flatten(Tail(ss))

\* no handleSubmit is waiting on its timer
NoPending == [kind |-> "none", aliased |-> FALSE, closure |-> <<>>]

\* useState<File | null>: the file's name, or no file
NoFile == [name |-> <<>>, isFile |-> FALSE]
FileNamed(name) == [name |-> name, isFile |-> TRUE]

\* the state of the App and of the call variables while they play no part
\* storage.ts 12-24: the ids of DEFAULT_CATEGORIES
DEFAULT_CATEGORIES ==
    <<"cat_1", "cat_2", "cat_3", "cat_4", "cat_5", "cat_6", "cat_7", "cat_8", "cat_9",
      "cat_11", "cat_10">>

\* a field of a parsed backup document: whether Array.isArray holds of it, and its items
NotArray == [isArray |-> FALSE, items |-> <<>>]
ArrayOf(items) == [isArray |-> TRUE, items |-> items]

\* no file has been given to handleImport
NoBackup ==
    [status |-> "none",
     doc |-> [json |-> FALSE, app |-> undefined, transactions |-> NotArray,
              patrimony |-> NotArray, batches |-> NotArray, categories |-> NotArray]]

\* no analytics or insight call has been made, nothing is stored under orbis_insight_*
Noon(y, m, d) == [y |-> y, m |-> m, d |-> d, atMidnight |-> FALSE]
NoOutput == [fn |-> "none", value |-> <<>>]
NoTip == [date |-> None, text |-> None]
Period(days) == [all |-> FALSE, days |-> days]
AllTime == [all |-> TRUE, days |-> 0]
FnIdle ==
    /\ patrimony = <<>> /\ callTime = Noon(2024, 1, 15) /\ window = Period(30)
    /\ out = NoOutput /\ tipStore = NoTip /\ calls = {}

AppIdle ==
    /\ patrimonyTransactions = <<>> /\ categories = DEFAULT_CATEGORIES
    /\ stPatrimony = <<>> /\ stCategories = None
    /\ backup = NoBackup
    /\ transactions = <<>> /\ importBatches = <<>>
    /\ stTransactions = <<>> /\ stBatches = <<>>
    /\ activeTab = "dashboard"
    /\ ops = 0
    /\ nextId = 0 /\ clock = 0
    /\ pendingSave = NoPending
    /\ step = "upload" /\ file = NoFile /\ fileContent = <<>> /\ parsedData = <<>>
    /\ lastOp = [op |-> "mount", arg |-> undefined]

DefaultMapping == [dateIndex |-> 0, descIndex |-> 1, amountIndex |-> 2]

-----------------------------------------------------------------------------
(* Quotients of JavaScript numbers, kept exact: [n, d] with d > 0 *)

RECURSIVE GCD(_, _)
GCD(a, b) == IF b = 0 THEN a ELSE GCD(b, a % b)

Frac(n, d) ==
    LET g == GCD(IF n < 0 THEN -n ELSE n, d)
    IN IF n = 0 THEN [n |-> 0, d |-> 1] ELSE [n |-> n \div g, d |-> d \div g]

ToFrac(x) == Frac(x.m, Pow10(x.e))
FTimes(a, b) == Frac(a.n * b.n, a.d * b.d)
FOver(a, b) == Frac(a.n * b.d, a.d * b.n)          \* b > 0
FMinus(a, b) == Frac(a.n * b.d - b.n * a.d, a.d * b.d)
FLess(a, b) == a.n * b.d < b.n * a.d
\* Math.round(x) = floor(x + 0.5)
FRound(a) == (2 * a.n + a.d) \div (2 * a.d)

-----------------------------------------------------------------------------
(* JavaScript numbers as they are: IEEE 754 binary64, round to nearest, ties to
   even.  A finite number is [sign, man, exp] with value (-1)^sign * man * 2^exp,
   man a natural of exactly 53 bits (or zero), held as limbs of 15 bits, least
   significant first.  Subnormals, infinities and NaN do not arise from the sums
   of money amounts this is used for. *)

Limb == 2^15
Pow2(k) == 2^k

RECURSIVE BigOf(_)
BigOf(n) == IF n = 0 THEN <<>> ELSE <<n % Limb>> \o BigOf(n \div Limb)

RECURSIVE BigTrim(_)
BigTrim(a) ==
    IF a = <<>> THEN a
    ELSE IF a[Len(a)] = 0 THEN BigTrim(SubSeq(a, 1, Len(a) - 1)) ELSE a

LimbAt(a, i) == IF i <= Len(a) THEN a[i] ELSE 0

RECURSIVE BigAddFrom(_, _, _, _)
BigAddFrom(a, b, i, carry) ==
    IF i > Len(a) /\ i > Len(b) THEN (IF carry = 0 THEN <<>> ELSE <<carry>>)
    ELSE <<(LimbAt(a, i) + LimbAt(b, i) + carry) % Limb>>
         \o BigAddFrom(a, b, i + 1, (LimbAt(a, i) + LimbAt(b, i) + carry) \div Limb)
BigAdd(a, b) == BigAddFrom(a, b, 1, 0)

\* a - b for a >= b
RECURSIVE BigSubFrom(_, _, _, _)
BigSubFrom(a, b, i, borrow) ==
    IF i > Len(a) THEN <<>>
    ELSE <<(a[i] - LimbAt(b, i) - borrow + Limb) % Limb>>
         \o BigSubFrom(a, b, i + 1, IF a[i] - LimbAt(b, i) - borrow < 0 THEN 1 ELSE 0)
BigSub(a, b) == BigTrim(BigSubFrom(a, b, 1, 0))

\* on trimmed naturals
BigLess(a, b) ==
    \/ Len(a) < Len(b)
    \/ /\ Len(a) = Len(b)
       /\ \E i \in 1..Len(a) :
             a[i] < b[i] /\ \A j \in (i + 1)..Len(a) : a[j] = b[j]

\* a * k for 0 < k <= Limb
RECURSIVE BigTimesFrom(_, _, _, _)
BigTimesFrom(a, k, i, carry) ==
    IF i > Len(a) THEN (IF carry = 0 THEN <<>> ELSE <<carry>>)
    ELSE <<(a[i] * k + carry) % Limb>>
         \o BigTimesFrom(a, k, i + 1, (a[i] * k + carry) \div Limb)

\* a * 2^k
BigShl(a, k) ==
    IF a = <<>> THEN a
    ELSE [i \in 1..(k \div 15) |-> 0] \o BigTimesFrom(a, Pow2(k % 15), 1, 0)

\* floor(a / q) and a mod q for 0 < q < Limb, from the most significant limb down
RECURSIVE BigDivFrom(_, _, _, _)
BigDivFrom(a, q, i, rem) ==
    IF i = 0 THEN [quot |-> <<>>, rem |-> rem]
    ELSE LET rest == BigDivFrom(a, q, i - 1, (rem * Limb + a[i]) % q)
         IN [quot |-> Append(rest.quot, (rem * Limb + a[i]) \div q), rem |-> rest.rem]
BigDiv(a, q) ==
    LET r == BigDivFrom(a, q, Len(a), 0)
    IN [quot |-> BigTrim(r.quot), rem |-> r.rem]

\* the number of bits of a trimmed natural
BitLength(a) ==
    IF a = <<>> THEN 0
    ELSE 15 * (Len(a) - 1) + Min({k \in 1..15 : a[Len(a)] < Pow2(k)})

\* floor(a / 2^k), and how the dropped part compares with half of 2^k (k >= 1)
BigShr(a, k) ==
    LET n == k \div 15
        high == BigDiv(SubSeq(a, n + 1, Len(a)), Pow2(k % 15))
        dropped == BigTrim(SubSeq(a, 1, n) \o <<high.rem>>)
        half == BigShl(<<1>>, k - 1)
    IN [quot |-> high.quot,
        cmp |-> IF BigLess(dropped, half) THEN "below"
                ELSE IF dropped = half THEN "half" ELSE "above"]

DZero == [sign |-> 0, man |-> <<>>, exp |-> 0]

\* the double nearest to (-1)^sign * n * 2^e, ties to even
RoundToDouble(sign, n, e) ==
    LET len == BitLength(n)
    IN IF n = <<>> THEN DZero
       ELSE IF len <= 53
       THEN [sign |-> sign, man |-> BigShl(n, 53 - len), exp |-> e - (53 - len)]
       ELSE LET cut == BigShr(n, len - 53)
                up == \/ cut.cmp = "above"
                      \/ cut.cmp = "half" /\ cut.quot[1] % 2 = 1
                man == IF up THEN BigAdd(cut.quot, <<1>>) ELSE cut.quot
            IN IF BitLength(man) = 54
               THEN [sign |-> sign, man |-> BigDiv(man, 2).quot, exp |-> e + (len - 53) + 1]
               ELSE [sign |-> sign, man |-> man, exp |-> e + (len - 53)]

\* the number a decimal literal m / 10^e (e <= 4) denotes
ToDouble(x) ==
    LET p == IF x.m < 0 THEN -x.m ELSE x.m
        d == BigDiv(BigShl(BigOf(p), 75), Pow10(x.e))
        sticky == IF d.rem = 0 THEN <<>> ELSE <<1>>
    IN RoundToDouble(IF x.m < 0 THEN 1 ELSE 0, BigAdd(BigShl(d.quot, 1), sticky), -76)

DNeg(a) == IF a.man = <<>> THEN a ELSE [a EXCEPT !.sign = 1 - a.sign]

\* a + b
DAdd(a, b) ==
    LET e == IF a.exp < b.exp THEN a.exp ELSE b.exp
        x == BigShl(a.man, a.exp - e)
        y == BigShl(b.man, b.exp - e)
    IN IF a.man = <<>> THEN b
       ELSE IF b.man = <<>> THEN a
       ELSE IF a.sign = b.sign THEN RoundToDouble(a.sign, BigAdd(x, y), e)
       ELSE IF BigLess(x, y) THEN RoundToDouble(b.sign, BigSub(y, x), e)
       ELSE RoundToDouble(a.sign, BigSub(x, y), e)

\* a - b
DMinus(a, b) == DAdd(a, DNeg(b))

-----------------------------------------------------------------------------
(* date-fns on calendar days *)

InvalidDay == [valid |-> FALSE, y |-> 0, m |-> 0, d |-> 0]
Day(y, m, d) == [valid |-> TRUE, y |-> y, m |-> m, d |-> d]

\* parseISO of a YYYY-MM-DD text: the local midnight of that day, or an invalid date
parseISO(text) ==
    IF /\ Len(text) = 10 /\ text[5] = "-" /\ text[8] = "-"
       /\ \A i \in (1..10) \ {5, 8} : IsDigit(text[i])
       /\ IsCalendarDate(DigitsValue(SubSeq(text, 1, 4)), DigitsValue(SubSeq(text, 6, 7)),
                         DigitsValue(SubSeq(text, 9, 10)))
    THEN Day(DigitsValue(SubSeq(text, 1, 4)), DigitsValue(SubSeq(text, 6, 7)),
             DigitsValue(SubSeq(text, 9, 10)))
    ELSE InvalidDay

isSameMonth(a, b) == a.valid /\ b.valid /\ a.y = b.y /\ a.m = b.m

subMonths(date, i) ==
    LET k == date.y * 12 + (date.m - 1) - i
        y == k \div 12
        m == (k % 12) + 1
    IN Day(y, m, IF date.d > DaysInMonth(y, m) THEN DaysInMonth(y, m) ELSE date.d)

getDate(date) == date.d
getDaysInMonth(date) == DaysInMonth(date.y, date.m)

\* the calendar day of an instant, and new Date().toDateString() of it
DayOf(t) == Day(t.y, t.m, t.d)
toDateString(t) == <<t.y, t.m, t.d>>

\* arr.reduce((acc, t) => acc + t.amount, 0)
RECURSIVE TotalAmount(_)
TotalAmount(arr) ==
    IF arr = <<>> THEN Norm(0, 0)
    ELSE Plus(TotalAmount(SubSeq(arr, 1, Len(arr) - 1)), arr[Len(arr)].amount)

-----------------------------------------------------------------------------
(* services/insights.ts: getDailyTip and getSmartInsight *)

DAILY_TIPS_length == 11

\* getDailyTip with Math.random() choosing the tip `pick`:
\* [text |-> index of the tip returned, store |-> orbis_insight_* after the call]
getDailyTip_NoStore(store, t, pick) ==
    [text |-> pick, store |-> store]

getDailyTip(store, t, pick) ==
    IF store.date = Some(toDateString(t)) /\ store.text # None
    THEN [text |-> store.text[1], store |-> store]
    ELSE [text |-> pick, store |-> [date |-> Some(toDateString(t)), text |-> Some(pick)]]

\* lines 157-159, 167-169: the expenses dated in the month of `date`
MonthExpenses(txs, date) ==
    TotalAmount(SelectSeq(txs, LAMBDA x :
        x.type = "expense" /\ isSameMonth(parseISO(x.dateISO), date)))

\* lines 161-177: the mean over those of the last three months that have expenses
MonthsWithExpenses(txs, today) ==
    SelectSeq([i \in 1..3 |-> [amount |-> MonthExpenses(txs, subMonths(today, i))]],
              LAMBDA r : IsPositive(r.amount))

AverageOf(monthly) ==
    IF Len(monthly) > 0 THEN FOver(ToFrac(TotalAmount(monthly)), Frac(Len(monthly), 1))
    ELSE Frac(0, 1)

\* lines 182-184
Projection(currentMonthExpenses, today) ==
    IF getDate(today) > 2
    THEN FTimes(FOver(currentMonthExpenses, Frac(getDate(today), 1)),
                Frac(getDaysInMonth(today), 1))
    ELSE currentMonthExpenses

\* line 186
StableDailyAvg(averageMonthly, projection) ==
    IF averageMonthly.n > 0 THEN FOver(averageMonthly, Frac(30, 1))
    ELSE IF projection.n = 0 THEN Frac(1, 1)
    ELSE FOver(projection, Frac(30, 1))

\* lines 207-218: this month's expenses not above the threshold
SmallExpenses(txs, today, smallTxnThreshold) ==
    SelectSeq(txs, LAMBDA x :
        /\ x.type = "expense" /\ isSameMonth(parseISO(x.dateISO), today)
        /\ ~FLess(smallTxnThreshold, ToFrac(x.amount)))

\* lines 220-228: the groups with four entries or more
Recurring(small) ==
    {c \in {small[i].categoryId : i \in 1..Len(small)} :
        Cardinality({i \in 1..Len(small) : small[i].categoryId = c}) >= 4}

InvisibleGroups(small, recurring) ==
    [hasRecurrence |-> recurring # {},
     invisibleTotal |->
        ToFrac(TotalAmount(SelectSeq(small, LAMBDA x : x.categoryId \in recurring)))]

\* lines 189-191
PatrimonyDeposits(pats, today) ==
    ToFrac(TotalAmount(SelectSeq(pats, LAMBDA x :
        x.type = "deposit" /\ isSameMonth(parseISO(x.dateISO), today))))

FactsWith(averageMonthly, projection, stableDailyAvg, deposits, groups, today) ==
    [averageMonthly |-> averageMonthly,
     projection |-> projection,
     stableDailyAvg |-> stableDailyAvg,
     daysPassed |-> getDate(today),
     patrimonyDeposits |-> deposits,
     hasRecurrence |-> groups.hasRecurrence,
     invisibleTotal |-> groups.invisibleTotal]

GroupsUnder(txs, today, stableDailyAvg) ==
    InvisibleGroups(SmallExpenses(txs, today, FTimes(stableDailyAvg, Frac(12, 100))),
        Recurring(SmallExpenses(txs, today, FTimes(stableDailyAvg, Frac(12, 100)))))

FactsFrom(averageMonthly, projection, txs, pats, today) ==
    FactsWith(averageMonthly, projection, StableDailyAvg(averageMonthly, projection),
              PatrimonyDeposits(pats, today),
              GroupsUnder(txs, today, StableDailyAvg(averageMonthly, projection)), today)

\* lines 154-191 and 206-228: the quantities the rules read
InsightFacts(txs, pats, t) ==
    FactsFrom(AverageOf(MonthsWithExpenses(txs, DayOf(t))),
              Projection(ToFrac(MonthExpenses(txs, DayOf(t))), DayOf(t)),
              txs, pats, DayOf(t))

\* A. line 194
OverspendRule(f) ==
    f.averageMonthly.n > 0 /\ FLess(FTimes(f.averageMonthly, Frac(120, 100)), f.projection)
\* B. lines 203, 227
InvisibleRule(f) ==
    /\ FLess(Frac(5, 1), f.stableDailyAvg)
    /\ f.hasRecurrence
    /\ FLess(FTimes(f.stableDailyAvg, Frac(1, 2)), f.invisibleTotal)
\* C. line 237
PatrimonyRule(f) ==
    /\ f.patrimonyDeposits.n > 0
    /\ \/ f.averageMonthly.n = 0
       \/ ~FLess(FTimes(f.averageMonthly, Frac(110, 100)), f.projection)
\* D. line 245
DisciplinedRule(f) ==
    /\ f.averageMonthly.n > 0
    /\ FLess(f.projection, FTimes(f.averageMonthly, Frac(85, 100)))
    /\ f.daysPassed > 5

\* the text of an insight: the sentence (by rule) and the number it carries
Text(rule, value) == [rule |-> rule, value |-> value]
Insight(text, status, store) == [text |-> text, status |-> status, store |-> store]

\* the percentages of lines 198 and 249
PctAbove(f) ==
    FRound(FTimes(FMinus(FOver(f.projection, f.averageMonthly), Frac(1, 1)), Frac(100, 1)))
PctBelow(f) ==
    FRound(FTimes(FMinus(Frac(1, 1), FOver(f.projection, f.averageMonthly)), Frac(100, 1)))

TipInsight(tip) == Insight(Text("tip", tip.text), "neutral", tip.store)

\* the cascade with the patrimony rule ahead of the others
Cascade_PatrimonyFirst(f, store, t, pick) ==
    IF PatrimonyRule(f) THEN Insight(Text("patrimony", 0), "good", store)
    ELSE IF OverspendRule(f) THEN Insight(Text("overspend", PctAbove(f)), "warning", store)
    ELSE IF InvisibleRule(f)
    THEN Insight(Text("invisible", FRound(FTimes(f.invisibleTotal, Frac(100, 1)))),
                 "neutral", store)
    ELSE IF DisciplinedRule(f)
    THEN Insight(Text("disciplined", PctBelow(f)), "good", store)
    ELSE TipInsight(getDailyTip(store, t, pick))

\* getSmartInsight, lines 193-260, at instant t with localStorage's tip keys `store`
\* and Math.random() choosing the tip `pick`: the first rule that holds gives the
\* result; with it, the tip keys after the call
Cascade(f, store, t, pick) ==
    IF OverspendRule(f) THEN Insight(Text("overspend", PctAbove(f)), "warning", store)
    ELSE IF InvisibleRule(f)
    THEN Insight(Text("invisible", FRound(FTimes(f.invisibleTotal, Frac(100, 1)))),
                 "neutral", store)
    ELSE IF PatrimonyRule(f) THEN Insight(Text("patrimony", 0), "good", store)
    ELSE IF DisciplinedRule(f)
    THEN Insight(Text("disciplined", PctBelow(f)), "good", store)
    ELSE TipInsight(getDailyTip(store, t, pick))

-----------------------------------------------------------------------------
(* services/analytics.ts: filterTransactions *)

\* Instants are a calendar day and a time of day that is 00:00 or later than 00:00.
\* getTime() order of two instants of which at least one is a local midnight:
InstantKey(t) == 2 * (t.y * 10000 + t.m * 100 + t.d) + (IF t.atMidnight THEN 0 ELSE 1)
isAfter(a, b) == InstantKey(a) > InstantKey(b)

\* the Date parseISO gives for a day: its local midnight
MidnightOf(date) == [y |-> date.y, m |-> date.m, d |-> date.d, atMidnight |-> TRUE]

\* subDays(t, n): the same time of day, n calendar days earlier
RECURSIVE subDays(_, _)
subDays(t, n) ==
    IF n < t.d THEN [t EXCEPT !.d = t.d - n]
    ELSE LET p == PrevDay(t.y, t.m, 1)
         IN subDays([y |-> p[1], m |-> p[2], d |-> p[3], atMidnight |-> t.atMidnight],
                    n - t.d)

\* new Date(dateISO).getTime() of a YYYY-MM-DD text of a real day, up to order
DateKey(text) ==
    DigitsValue(SubSeq(text, 1, 4)) * 10000 + DigitsValue(SubSeq(text, 6, 7)) * 100
        + DigitsValue(SubSeq(text, 9, 10))

\* .sort((a, b) => new Date(a.dateISO).getTime() - new Date(b.dateISO).getTime()): stable
RECURSIVE InsertByDate(_, _)
InsertByDate(sorted, t) ==
    IF sorted = <<>> THEN <<t>>
    ELSE IF DateKey(sorted[Len(sorted)].dateISO) <= DateKey(t.dateISO)
         THEN Append(sorted, t)
         ELSE Append(InsertByDate(SubSeq(sorted, 1, Len(sorted) - 1), t),
                     sorted[Len(sorted)])

RECURSIVE SortByDate(_)
SortByDate(arr) ==
    IF arr = <<>> THEN <<>>
    ELSE InsertByDate(SortByDate(SubSeq(arr, 1, Len(arr) - 1)), arr[Len(arr)])

\* the predicate of .filter() at lines 157-160
InWindow(x, startDate) ==
    /\ parseISO(x.dateISO).valid
    /\ \/ isAfter(MidnightOf(parseISO(x.dateISO)), startDate)
       \/ InstantKey(MidnightOf(parseISO(x.dateISO))) = InstantKey(startDate)

\* filterTransactions keeping what lies before the start of the window
filterTransactions_Before(txs, days, t) ==
    IF days.all THEN txs
    ELSE SortByDate(SelectSeq(txs, LAMBDA x :
            parseISO(x.dateISO).valid /\ ~InWindow(x, subDays(t, days.days))))

\* AnalyticsService.filterTransactions(transactions, days) called at instant t
filterTransactions(txs, days, t) ==
    IF days.all THEN txs
    ELSE SortByDate(SelectSeq(txs, LAMBDA x : InWindow(x, subDays(t, days.days))))

-----------------------------------------------------------------------------
(* services/analytics.ts: getSummary, and PatrimonyService.calculateTotal *)

\* arr.reduce((acc, t) => acc + t.amount, 0) in JavaScript numbers, left to right
RECURSIVE SumOfAmounts(_)
SumOfAmounts(arr) ==
    IF arr = <<>> THEN DZero
    ELSE DAdd(SumOfAmounts(SubSeq(arr, 1, Len(arr) - 1)), ToDouble(arr[Len(arr)].amount))

\* calculateTotal that never goes below zero
RECURSIVE calculateTotal_Clamped(_)
calculateTotal_Clamped(pats) ==
    IF pats = <<>> THEN DZero
    ELSE LET acc == calculateTotal_Clamped(SubSeq(pats, 1, Len(pats) - 1))
             t == pats[Len(pats)]
             next == IF t.type = "deposit" THEN DAdd(acc, ToDouble(t.amount))
                     ELSE IF t.type = "withdraw" THEN DMinus(acc, ToDouble(t.amount))
                     ELSE acc
         IN IF next.sign = 1 THEN DZero ELSE next

\* PatrimonyService.calculateTotal: deposits add, withdrawals subtract
RECURSIVE calculateTotal(_)
calculateTotal(pats) ==
    IF pats = <<>> THEN DZero
    ELSE LET acc == calculateTotal(SubSeq(pats, 1, Len(pats) - 1))
             t == pats[Len(pats)]
         IN IF t.type = "deposit" THEN DAdd(acc, ToDouble(t.amount))
            ELSE IF t.type = "withdraw" THEN DMinus(acc, ToDouble(t.amount))
            ELSE acc

SummaryStats(totalIncome, totalExpense, patrimonyTotal, availableCash) ==
    [balance |-> DMinus(totalIncome, totalExpense),
     availableCash |-> availableCash,
     patrimonyTotal |-> patrimonyTotal,
     totalIncome |-> totalIncome,
     totalExpense |-> totalExpense]

\* getSummary adding the patrimony to the balance
getSummary_CashPlusPatrimony(txs, pats) ==
    SummaryStats(SumOfAmounts(SelectSeq(txs, LAMBDA t : t.type = "income")),
                 SumOfAmounts(SelectSeq(txs, LAMBDA t : t.type = "expense")),
                 calculateTotal(pats),
                 DAdd(DMinus(SumOfAmounts(SelectSeq(txs, LAMBDA t : t.type = "income")),
                             SumOfAmounts(SelectSeq(txs, LAMBDA t : t.type = "expense"))),
                      calculateTotal(pats)))

\* AnalyticsService.getSummary, lines 183-196 and 208-216: the five sums of the
\* result (savingsRate and fixedBase, lines 197-207, are quotients no property reads)
getSummary(txs, pats) ==
    SummaryStats(SumOfAmounts(SelectSeq(txs, LAMBDA t : t.type = "income")),
                 SumOfAmounts(SelectSeq(txs, LAMBDA t : t.type = "expense")),
                 calculateTotal(pats),
                 DMinus(DMinus(SumOfAmounts(SelectSeq(txs, LAMBDA t : t.type = "income")),
                               SumOfAmounts(SelectSeq(txs, LAMBDA t : t.type = "expense"))),
                        calculateTotal(pats)))

\* getAverageMonthlyExpenses dividing by the number of months analysed
getAverageMonthlyExpenses_OverAllMonths(txs, monthsToAnalyze, today) ==
    LET monthly == [i \in 1..monthsToAnalyze |->
                       [amount |-> MonthExpenses(txs, subMonths(today, i))]]
    IN IF monthsToAnalyze > 0
       THEN FOver(ToFrac(TotalAmount(monthly)), Frac(monthsToAnalyze, 1))
       ELSE Frac(0, 1)

\* AnalyticsService.getAverageMonthlyExpenses (lines 163-181) on the day `today`:
\* the months before it that have expenses, and their mean
getAverageMonthlyExpenses(txs, monthsToAnalyze, today) ==
    AverageOf(SelectSeq([i \in 1..monthsToAnalyze |->
                            [amount |-> MonthExpenses(txs, subMonths(today, i))]],
                        LAMBDA r : IsPositive(r.amount)))

\* [...transactions].sort((a, b) => a.dateISO.localeCompare(b.dateISO)): stable; texts
\* of the form YYYY-MM-DD compare as their digits do
SortByDateText(arr) == SortByDate(arr)

\* lines 319-324: the Map from day to the signed sum of its amounts, in insertion order
RECURSIVE GroupedByDay(_)
GroupedByDay(sorted) ==
    IF sorted = <<>> THEN <<>>
    ELSE LET grouped == GroupedByDay(SubSeq(sorted, 1, Len(sorted) - 1))
             t == sorted[Len(sorted)]
             val == IF t.type = "income" THEN ToDouble(t.amount)
                    ELSE DNeg(ToDouble(t.amount))
             at == {k \in 1..Len(grouped) : grouped[k].day = t.dateISO}
         IN IF at = {} THEN Append(grouped, [day |-> t.dateISO, total |-> DAdd(DZero, val)])
            ELSE [k \in 1..Len(grouped) |->
                    IF k \in at THEN [grouped[k] EXCEPT !.total = DAdd(@, val)]
                    ELSE grouped[k]]

\* format(parseISO(dateStr), 'dd MMM'): the day of the month and the month
DayLabel(dateStr) == <<parseISO(dateStr).d, parseISO(dateStr).m>>

\* lines 326-332: one point per key in ascending order, with the running balance
RECURSIVE RunningPoints(_)
RunningPoints(days) ==
    IF days = <<>> THEN <<>>
    ELSE LET points == RunningPoints(SubSeq(days, 1, Len(days) - 1))
             runningBalance == IF points = <<>> THEN DZero ELSE points[Len(points)].balance
             last == days[Len(days)]
         IN Append(points, [date |-> DayLabel(last.day),
                            balance |-> DAdd(runningBalance, last.total)])

\* the keys sorted: Array.from(groupedByDay.keys()).sort()
RECURSIVE SortedDays(_)
SortedDays(grouped) ==
    IF grouped = <<>> THEN <<>>
    ELSE LET least == CHOOSE k \in 1..Len(grouped) :
                         \A j \in 1..Len(grouped) :
                            DateKey(grouped[k].day) <= DateKey(grouped[j].day)
         IN <<grouped[least]>>
              \o SortedDays(SelectSeq(grouped, LAMBDA g : g.day # grouped[least].day))

\* getBalanceHistory whose points carry the day's own sum
getBalanceHistory_DailyNet(txs) ==
    LET days == SortedDays(GroupedByDay(SortByDateText(txs)))
    IN IF \E k \in 1..Len(days) : ~parseISO(days[k].day).valid
       THEN [threw |-> TRUE, points |-> <<>>]
       ELSE [threw |-> FALSE,
             points |-> [k \in 1..Len(days) |->
                            [date |-> DayLabel(days[k].day), balance |-> days[k].total]]]

\* AnalyticsService.getBalanceHistory (lines 311-335): the points returned, or the
\* RangeError format() throws for an invalid Date
getBalanceHistory(txs) ==
    LET days == SortedDays(GroupedByDay(SortByDateText(txs)))
    IN IF \E k \in 1..Len(days) : ~parseISO(days[k].day).valid
       THEN [threw |-> TRUE, points |-> <<>>]
       ELSE [threw |-> FALSE, points |-> RunningPoints(days)]

-----------------------------------------------------------------------------
(* A direct call of InsightService.suggestCategory(description, history) *)

HistoryDescriptions == {Str("Uber Eats"), Str("uber"), Str("Mercado Sol")}
HistoryCategories == {"cat_4", "cat_10"}
QueryDescriptions == {Str(" Uber "), Str("Uber Eats Trip"), Str("ub "), Str("Netflix"),
                      Str("zzzz"), Str("Mercado"), Str("Uber Pizza"), Str("Salario NET")}

HistoryEntries ==
    {[d |-> d, c |-> c, t |-> t] :
        d \in HistoryDescriptions, c \in HistoryCategories, t \in 0..MaxClock}

Histories ==
    {[i \in 1..Len(q) |-> ManualTransaction(UUID(i), q[i].d, q[i].c, q[i].t)] :
        q \in SeqsUpTo(HistoryEntries, MaxHist)}

InitClassify ==
    /\ AppIdle
    /\ pc = "call"
    /\ description \in QueryDescriptions
    /\ history \in Histories
    /\ suggested = null
    /\ content = <<>> /\ mapping = DefaultMapping /\ results = <<>>
    /\ FnIdle

CallSuggestCategory ==
    /\ pc = "call"
    /\ pc' = "done"
    /\ suggested' = suggestCategory(description, history)
    /\ history' = SortedHistory(description, history)
    /\ UNCHANGED <<appVars, backupVars, fnVars, description, content, mapping, results>>

NextClassify == CallSuggestCategory

SpecClassify == InitClassify /\ [][NextClassify]_vars

-----------------------------------------------------------------------------
(* A direct call of ImportService.parseOFX(content, categories, history) *)

OFXAmountFields == {Str("<TRNAMT>-45.90"), Str("<TRNAMT>0.00"), Str("<TRNAMT>-"), <<>>}
OFXDateFields == {Str("<DTPOSTED>20240115"), Str("<DTPOSTED>20240230120000[-3:BRT]"), <<>>}
OFXTextFields == {Str("<MEMO>UBER TRIP"), Str("<NAME>Padaria Sol"),
                  Str("<NAME>Loja<MEMO>  "), <<>>}

\* one <STMTTRN> block: on a single line, or with one field per line
OFXBlockText(a, d, t, layout) ==
    IF layout = "line"
    THEN TagSTMTTRN \o a \o d \o t \o Str("</STMTTRN>")
    ELSE Str("<STMTTRN>\n") \o Flatten([i \in 1..3 |->
             LET f == <<a, d, t>>[i] IN IF f = <<>> THEN <<>> ELSE f \o Newline])
         \o Str("</STMTTRN>\n")

OFXBlockTexts ==
    {OFXBlockText(a, d, t, l) :
        a \in OFXAmountFields, d \in OFXDateFields, t \in OFXTextFields,
        l \in {"line", "lines"}}

OFXExample == Str("<STMTTRN><TRNAMT>-45.90<DTPOSTED>20240115<MEMO>UBER TRIP</STMTTRN>")

OFXContents ==
    {OFXExample} \cup
    {Str("OFXHEADER:100\n<OFX>") \o Flatten(bs) \o Str("</OFX>") :
        bs \in (SeqsUpTo(OFXBlockTexts, MaxBlocks) \ {<<>>})}

ParserHistories ==
    {<<>>,
     <<ManualTransaction(UUID(1), Str("Padaria"), "cat_10", 0),
       ManualTransaction(UUID(2), Str("uber trip"), "cat_7", 1)>>}

InitOFX ==
    /\ AppIdle
    /\ pc = "call"
    /\ content \in OFXContents
    /\ history \in ParserHistories
    /\ results = <<>>
    /\ description = <<>> /\ suggested = null /\ mapping = DefaultMapping
    /\ FnIdle

CallParseOFX ==
    /\ pc = "call"
    /\ pc' = "done"
    /\ LET r == parseOFX(content, history, 0)
       IN results' = r.results /\ history' = r.hist
    /\ UNCHANGED <<appVars, backupVars, fnVars, description, suggested, content, mapping>>

NextOFX == CallParseOFX

SpecOFX == InitOFX /\ [][NextOFX]_vars

-----------------------------------------------------------------------------
(* A direct call of ImportService.parseCSV(content, mapping, categories, history) *)

CSVDateCells == {Str("15/01/2024"), Str("31/02/2024"), Str("2024-01-15"),
                 Str("2024-02-31"), Str("1/2/24"), Str("15/01"), Str("Data"),
                 Str("ab/cd/efgh")}
CSVDescCells == {Str("Uber"), <<>>}
CSVAmountCells == {Str("\"1.234,56\""), Str("\"1,234.56\""), Str("\"45,90\""),
                   Str("-45.90"), Str("0"), Str("Valor")}

CSVRowText(d, x, a) == d \o Comma \o x \o Comma \o a

CSVRowTexts ==
    {CSVRowText(d, x, a) : d \in CSVDateCells, x \in CSVDescCells, a \in CSVAmountCells}

RECURSIVE JoinLines(_)
JoinLines(ls) ==
    IF ls = <<>> THEN <<>> ELSE ls[1] \o Newline \o JoinLines(Tail(ls))

\* files in which rows that cannot be read stand between rows that can
CSVMixedContents ==
    {JoinLines(<<good1, bad, good2>>) :
        good1 \in {CSVRowText(Str("15/01/2024"), Str("Uber"), Str("-45.90"))},
        bad \in {CSVRowText(Str("Data"), Str("Descricao"), Str("Valor")),
                 CSVRowText(Str("15/01"), Str("Uber"), Str("-45.90")),
                 CSVRowText(Str("15/01/2024"), Str("Uber"), Str("n/d")),
                 Str("15/01/2024,Uber"),
                 Str("  "),
                 CSVRowText(Str("ab/cd/efgh"), Str("Uber"), Str("-45.90"))},
        good2 \in {CSVRowText(Str("2024-01-15"), Str("Padaria"), Str("\"45,90\""))}}

CSVContents ==
    {h \o JoinLines(rows) :
        h \in {<<>>, Str("Data,Descricao,Valor\r\n")},
        rows \in (SeqsUpTo(CSVRowTexts, MaxRows) \ {<<>>})}
    \cup CSVMixedContents

InitCSV ==
    /\ AppIdle
    /\ pc = "call"
    /\ content \in CSVContents
    /\ mapping = DefaultMapping
    /\ history \in ParserHistories
    /\ results = <<>>
    /\ description = <<>> /\ suggested = null
    /\ FnIdle

CallParseCSV ==
    /\ pc = "call"
    /\ pc' = "done"
    /\ \E engine \in DateEngines :
         LET r == parseCSV(content, mapping, history, 0, engine)
         IN results' = r.results /\ history' = r.hist
    /\ UNCHANGED <<appVars, backupVars, fnVars, description, suggested, content, mapping>>

NextCSV == CallParseCSV

SpecCSV == InitCSV /\ [][NextCSV]_vars

-----------------------------------------------------------------------------
(* Calls of InsightService.getSmartInsight(transactions, patrimonyTransactions)
   on fixed lists, as the header does on each render, while time passes *)

Instant(y, m, d, midnight) == [y |-> y, m |-> m, d |-> d, atMidnight |-> midnight]

Entry(n, type, cents, dateText, cat) ==
    [ManualTransaction(UUID(n), Str("Mercado"), cat, n) EXCEPT
        !.type = type, !.amount = CentsToAmount(cents), !.dateISO = Str(dateText)]

PatrimonyEntry(n, type, cents, dateText) ==
    [id |-> UUID(n), amount |-> CentsToAmount(cents), type |-> type,
     dateISO |-> Str(dateText), createdAt |-> n]

\* expenses of the three months before March 2024
InsightPastExpenses ==
    { <<>>,
      <<Entry(1, "expense", 300000, "2024-02-10", "cat_1")>>,
      <<Entry(1, "expense", 300000, "2024-02-10", "cat_1"),
        Entry(2, "expense", 150000, "2023-12-20", "cat_2")>> }

\* the large expenses of March 2024
InsightMonthExpenses ==
    { <<>>,
      <<Entry(3, "expense", 100000, "2024-03-01", "cat_2")>>,
      <<Entry(3, "expense", 400000, "2024-03-01", "cat_2")>> }

\* small expenses of one category in March 2024
InsightSmallExpenses ==
    { <<>>, [i \in 1..5 |-> Entry(3 + i, "expense", 1200, "2024-03-02", "cat_1")] }

\* entries no rule counts: an income, and an expense whose date is not a day
InsightOtherEntries ==
    <<Entry(9, "income", 500000, "2024-03-01", "cat_9"),
      Entry(10, "expense", 999900, "2024-02-31", "cat_1")>>

InsightTransactions ==
    {a \o b \o c \o InsightOtherEntries :
        a \in InsightPastExpenses, b \in InsightMonthExpenses, c \in InsightSmallExpenses}

InsightPatrimony ==
    { <<>>,
      <<PatrimonyEntry(1, "deposit", 50000, "2024-03-01"),
        PatrimonyEntry(2, "withdraw", 20000, "2024-03-01")>> }

InsightDays == {2, 5, 31}

InitInsight ==
    /\ AppIdle
    /\ pc = "call"
    /\ history \in InsightTransactions
    /\ patrimony \in InsightPatrimony
    /\ callTime \in {Instant(2024, 3, d, TRUE) : d \in InsightDays}
    /\ window = Period(30) /\ out = NoOutput /\ tipStore = NoTip /\ calls = {}
    /\ description = <<>> /\ suggested = null
    /\ content = <<>> /\ mapping = DefaultMapping /\ results = <<>>

CallGetSmartInsight ==
    /\ pc = "call"
    /\ \E f \in {InsightFacts(history, patrimony, callTime)} :
         \E pick \in 1..DAILY_TIPS_length :
            \E r \in {Cascade(f, tipStore, callTime, pick)} :
               /\ out' = [fn |-> "getSmartInsight", value |-> <<r.text, r.status>>]
               /\ tipStore' = r.store
               /\ calls' = calls \cup {[day |-> toDateString(callTime),
                                        atMidnight |-> callTime.atMidnight,
                                        text |-> r.text, status |-> r.status]}
    /\ UNCHANGED <<appVars, backupVars, pc, history, parserVars, patrimony, callTime, window>>

\* the clock moves within the day
TimePasses ==
    /\ pc = "call"
    /\ callTime.atMidnight
    /\ callTime' = [callTime EXCEPT !.atMidnight = FALSE]
    /\ UNCHANGED <<appVars, backupVars, pc, history, parserVars, patrimony, window, out,
                   tipStore, calls>>

\* midnight: the next calendar day begins
DayEnds ==
    /\ pc = "call"
    /\ \E c \in calls : c.day = toDateString(callTime)
    /\ Cardinality({c.day : c \in calls}) < MaxDays
    /\ LET n == NextDay(callTime.y, callTime.m, callTime.d)
       IN callTime' = Instant(n[1], n[2], n[3], TRUE)
    /\ UNCHANGED <<appVars, backupVars, pc, history, parserVars, patrimony, window, out,
                   tipStore, calls>>

NextInsight == CallGetSmartInsight \/ TimePasses \/ DayEnds

SpecInsight == InitInsight /\ [][NextInsight]_vars

-----------------------------------------------------------------------------
(* The dashboard's calls of AnalyticsService on fixed lists at one instant:
   filterTransactions(transactions, period), getSummary(filtered, patrimony) *)

Periods == {Period(7), Period(30), Period(90), AllTime}

\* the days around the three window starts of 10 March 2024, a day that does not
\* exist, and a day after the call
AnalyticsDates ==
    {"2024-03-10", "2024-03-03", "2024-03-02", "2024-02-09", "2023-12-11",
     "2024-02-30", "2024-03-11"}

\* the first entry of a list is an income of 0.10, the others expenses
AnalyticsEntry(n, dateText) ==
    Entry(n, IF n = 1 THEN "income" ELSE "expense", IF n = 1 THEN 10 ELSE 2500 * n,
          dateText, "cat_1")

AnalyticsPatrimony ==
    InsightPatrimony \cup {<<PatrimonyEntry(1, "deposit", 70, "2024-03-01")>>}

AnalyticsTransactions ==
    {[i \in 1..Len(ds) |-> AnalyticsEntry(i, ds[i])] : ds \in SeqsUpTo(AnalyticsDates, MaxTx)}

InitAnalytics ==
    /\ AppIdle
    /\ pc = "call"
    /\ history \in AnalyticsTransactions
    /\ patrimony \in AnalyticsPatrimony
    /\ callTime \in {Instant(2024, 3, 10, TRUE), Instant(2024, 3, 10, FALSE)}
    /\ window = Period(30) /\ out = NoOutput /\ tipStore = NoTip /\ calls = {}
    /\ description = <<>> /\ suggested = null
    /\ content = <<>> /\ mapping = DefaultMapping /\ results = <<>>

\* setPeriod(p) and the recomputation of filteredTransactions
CallFilterTransactions ==
    /\ pc = "call"
    /\ \E p \in Periods :
         /\ window' = p
         /\ out' = [fn |-> "filterTransactions",
                    value |-> filterTransactions(history, p, callTime)]
    /\ UNCHANGED <<appVars, backupVars, pc, history, parserVars, patrimony, callTime,
                   tipStore, calls>>

\* the recomputation of stats from the filtered list and the whole patrimony list
CallGetSummary ==
    /\ pc = "call"
    /\ out.fn = "filterTransactions"
    /\ out' = [fn |-> "getSummary", value |-> getSummary(out.value, patrimony)]
    /\ calls' = {out.value}          \* the list the call was given
    /\ UNCHANGED <<appVars, backupVars, pc, history, parserVars, patrimony, callTime,
                   window, tipStore>>

NextAnalytics == CallFilterTransactions \/ CallGetSummary

SpecAnalytics == InitAnalytics /\ [][NextAnalytics]_vars

-----------------------------------------------------------------------------
(* Direct calls of AnalyticsService.getAverageMonthlyExpenses(history, n) and
   AnalyticsService.getBalanceHistory(history) *)

\* an income and an expense on one day of February, an income and an expense on one
\* day of March, expenses of January, December and November, and an expense dated
\* on a day that does not exist
ReportRows ==
    {[type |-> "income", cents |-> 10, date |-> "2024-02-10"],
     [type |-> "expense", cents |-> 30, date |-> "2024-02-10"],
     [type |-> "income", cents |-> 20, date |-> "2024-03-05"],
     [type |-> "expense", cents |-> 1000, date |-> "2024-03-05"],
     [type |-> "expense", cents |-> 30, date |-> "2024-01-31"],
     [type |-> "expense", cents |-> 2500, date |-> "2023-12-20"],
     [type |-> "expense", cents |-> 700, date |-> "2023-11-15"],
     [type |-> "expense", cents |-> 4000, date |-> "2024-02-31"]}

ReportTransactions ==
    {[i \in 1..Len(q) |-> Entry(i, q[i].type, q[i].cents, q[i].date, "cat_1")] :
        q \in SeqsUpTo(ReportRows, MaxReport)}

\* the months to analyse: none, the default 3, and fewer
ReportMonths == 0..3

InitReports ==
    /\ AppIdle
    /\ pc = "call"
    /\ history \in ReportTransactions
    /\ callTime \in {Instant(2024, 3, 10, FALSE), Instant(2024, 3, 31, FALSE),
                     Instant(2024, 1, 15, FALSE)}
    /\ patrimony = <<>> /\ window = AllTime /\ out = NoOutput /\ tipStore = NoTip
    /\ calls = {}
    /\ description = <<>> /\ suggested = null
    /\ content = <<>> /\ mapping = DefaultMapping /\ results = <<>>

CallGetAverageMonthlyExpenses(n) ==
    /\ pc = "call"
    /\ out' = [fn |-> "getAverageMonthlyExpenses", monthsToAnalyze |-> n,
               value |-> getAverageMonthlyExpenses(history, n, DayOf(callTime))]
    /\ UNCHANGED <<appVars, backupVars, pc, history, parserVars, patrimony, callTime,
                   window, tipStore, calls>>

CallGetBalanceHistory ==
    /\ pc = "call"
    /\ out' = [fn |-> "getBalanceHistory", value |-> getBalanceHistory(history)]
    /\ UNCHANGED <<appVars, backupVars, pc, history, parserVars, patrimony, callTime,
                   window, tipStore, calls>>

NextReports ==
    \/ \E n \in ReportMonths : CallGetAverageMonthlyExpenses(n)
    \/ CallGetBalanceHistory

SpecReports == InitReports /\ [][NextReports]_vars

-----------------------------------------------------------------------------
(* App.tsx, TransactionForm, TransactionManager, ImportManager.tsx *)

CallIdle ==
    /\ pc = "idle" /\ description = <<>> /\ history = <<>> /\ suggested = null
    /\ content = <<>> /\ mapping = DefaultMapping /\ results = <<>>
    /\ FnIdle

Init == AppIdle /\ CallIdle

\* what the user can type into a TransactionForm
FormCents == {0, 1000}
FormDescriptions == {Str("Padaria")}
EditDescriptions == {Str("Uber")}
EditCategories == {"cat_4"}
FormCategories == {"", "cat_4"}
FormDate == Str("2024-01-20")

\* what the user can type into a row of the review table
ReviewDescriptions == {Str("Corrida"), <<>>}
ReviewCategories == {"cat_5"}

\* the files the user can pick: an OFX statement whose only block has amount 0 and
\* a memo no keyword matches, and a CSV statement with a header and one expense row
Files ==
    {[name |-> Str("banco.OFX"),
      text |-> Str("<OFX>\n<STMTTRN>\n<TRNAMT>0.00\n<DTPOSTED>20240116120000\n<MEMO>PIX\n</STMTTRN>\n</OFX>")],
     [name |-> Str("banco.csv"),
      text |-> Str("Data,Descricao,Valor\r\n15/01/2024,Uber,\"-45,90\"\r\n")]}

\* The temporary ids of the review rows are compared only with each other
\* (handleRemoveRow, handleUpdateRow): they are the UUIDs after the MaxIds that the
\* committed records can get
TempIdBase == MaxIds
TempIds == {UUID(TempIdBase + k) : k \in 1..2}

\* String.prototype.endsWith
endsWith(s, suffix) ==
    Len(suffix) <= Len(s) /\ SubSeq(s, Len(s) - Len(suffix) + 1, Len(s)) = suffix

Ids(arr) == {arr[i].id : i \in 1..Len(arr)}

\* A setTransactions() gives the next render a new array object: the array a waiting
\* handleSubmit closed over is from then on a different object
Detached(p) == IF p.kind = "none" THEN p ELSE [p EXCEPT !.aliased = FALSE]

\* An in-place sort of the state array also reorders the array of a waiting closure
\* while both are the same object
SortedWith(p, sorts) ==
    IF p.kind # "none" /\ p.aliased /\ sorts
    THEN [p EXCEPT !.closure = SortByCreatedAtDesc(p.closure)]
    ELSE p

\* one more handler runs
RunsHandler == ops < MaxOps /\ ops' = ops + 1

\* ImportManager is rendered only under the import tab: it mounts with its initial
\* state and loses its state when the tab changes
ImportManagerMounts ==
    /\ step' = "upload" /\ file' = NoFile /\ fileContent' = <<>> /\ parsedData' = <<>>

\* Layout: setActiveTab(tab)
SetActiveTab(tab) ==
    /\ RunsHandler
    /\ tab # activeTab
    /\ activeTab' = tab
    /\ ImportManagerMounts
    /\ pendingSave' = pendingSave
    /\ UNCHANGED <<transactions, importBatches, stTransactions, stBatches, nextId, clock,
                   lastOp, callVars, backupVars>>

\* Date.now() advances
Tick ==
    /\ clock < MaxClock
    /\ clock' = clock + 1
    /\ UNCHANGED <<ops, transactions, importBatches, stTransactions, stBatches, activeTab, nextId,
                   pendingSave, step, file, fileContent, parsedData, lastOp, callVars, backupVars>>

\* TransactionForm, auto-suggestion effect (lines 43-58): typing a description of
\* three characters or more calls suggestCategory on the App's transactions array
FormSuggest(desc) ==
    /\ RunsHandler
    /\ activeTab = "income"
    /\ ~(Len(desc) < 3)
    /\ transactions' = SortedHistory(desc, transactions)
    /\ pendingSave' = SortedWith(pendingSave,
                                        SortedHistory(desc, transactions) # transactions)
    /\ UNCHANGED <<importBatches, stTransactions, stBatches, activeTab, nextId, clock,
                   step, file, fileContent, parsedData, lastOp, callVars, backupVars>>

\* editingTransaction of the add form's closure
NoEditing == ManualTransaction(undefined, <<>>, "", 0)

\* TransactionForm.handleSubmit of the add form, up to the await
SubmitAdd(cents, desc, cat, type) ==
    /\ RunsHandler
    /\ activeTab = "income"
    /\ pendingSave.kind = "none"                       \* the button is disabled meanwhile
    /\ ~(~IsPositive(CentsToAmount(cents)) \/ desc = <<>> \/ cat = "")
    /\ Len(transactions) < MaxTx
    /\ pendingSave' = [kind |-> "add", aliased |-> TRUE, closure |-> transactions,
                       editing |-> NoEditing,
                       data |-> [amount |-> CentsToAmount(cents), description |-> desc,
                                 categoryId |-> cat, dateISO |-> FormDate, type |-> type,
                                 recurrence |-> "unique"]]
    /\ UNCHANGED <<transactions, importBatches, stTransactions, stBatches, activeTab, nextId,
                   clock, step, file, fileContent, parsedData, lastOp, callVars, backupVars>>

\* handleEditClick(t), the form filled from initialData and changed by the user, then
\* TransactionForm.handleSubmit of the edit form, up to the await
SubmitEdit(i, cents, desc, cat) ==
    /\ RunsHandler
    /\ activeTab = "income"
    /\ pendingSave.kind = "none"
    /\ i \in 1..Len(transactions)
    /\ ~(~IsPositive(CentsToAmount(cents)) \/ desc = <<>> \/ cat = "")
    /\ pendingSave' = [kind |-> "edit", aliased |-> TRUE, closure |-> transactions,
                       editing |-> transactions[i],
                       data |-> [amount |-> CentsToAmount(cents), description |-> desc,
                                 categoryId |-> cat,
                                 dateISO |-> transactions[i].dateISO,
                                 type |-> transactions[i].type,
                                 recurrence |-> transactions[i].recurrence]]
    /\ UNCHANGED <<transactions, importBatches, stTransactions, stBatches, activeTab, nextId,
                   clock, step, file, fileContent, parsedData, lastOp, callVars, backupVars>>

\* { ...t, ...data }
Merged(t, data) ==
    [t EXCEPT !.amount = data.amount, !.description = data.description,
              !.categoryId = data.categoryId, !.dateISO = data.dateISO,
              !.type = data.type, !.recurrence = data.recurrence]

\* App.handleAddTransaction as the closure of the render `arr` belongs to
handleAddTransaction(arr, t, id, now) ==
    arr \o <<[id |-> id, amount |-> t.amount, dateISO |-> t.dateISO,
              categoryId |-> t.categoryId, description |-> t.description,
              type |-> t.type, recurrence |-> t.recurrence, createdAt |-> now,
              importBatchId |-> undefined, isImported |-> FALSE,
              originalDescription |-> None]>>

\* TransactionItem: isEdited, the "edited" mark of a list row. An absent and an empty
\* originalDescription are both falsy
isEdited(t) ==
    /\ t.isImported
    /\ t.originalDescription # None
    /\ t.originalDescription # Some(<<>>)
    /\ t.description # t.originalDescription[1]

\* App.handleEditTransaction as the closure of the render `arr` belongs to
handleEditTransaction(arr, updatedT) ==
    [k \in 1..Len(arr) |-> IF arr[k].id = updatedT.id THEN updatedT ELSE arr[k]]

\* the 600 ms timer of handleSubmit fires: onSave(data) of the add form
SaveAdd ==
    /\ RunsHandler
    /\ pendingSave.kind = "add"
    /\ nextId < MaxIds
    /\ LET updated == handleAddTransaction(pendingSave.closure, pendingSave.data,
                                           UUID(nextId + 1), clock)
       IN /\ transactions' = updated
          /\ stTransactions' = updated
    /\ nextId' = nextId + 1
    /\ pendingSave' = NoPending
    /\ lastOp' = [op |-> "handleAddTransaction", arg |-> undefined]
    /\ UNCHANGED <<importBatches, stBatches, activeTab, clock, step, file, fileContent,
                   parsedData, callVars, backupVars>>

\* the 600 ms timer fires: handleEditSave(data) and App.handleEditTransaction
SaveEdit ==
    /\ RunsHandler
    /\ pendingSave.kind = "edit"
    /\ LET updated == handleEditTransaction(pendingSave.closure,
                                            Merged(pendingSave.editing, pendingSave.data))
       IN /\ transactions' = updated
          /\ stTransactions' = updated
    /\ pendingSave' = NoPending
    /\ lastOp' = [op |-> "handleEditTransaction", arg |-> undefined]
    /\ UNCHANGED <<importBatches, stBatches, activeTab, nextId, clock, step, file,
                   fileContent, parsedData, callVars, backupVars>>

\* App.handleDeleteTransaction: the list after the filter
handleDeleteTransaction(arr, id) == SelectSeq(arr, LAMBDA t : t.id # id)

DeleteTransaction(id) ==
    /\ RunsHandler
    /\ activeTab = "income"
    /\ id \in Ids(transactions)
    /\ LET updated == handleDeleteTransaction(transactions, id)
       IN /\ transactions' = updated
          /\ stTransactions' = updated
    /\ pendingSave' = Detached(pendingSave)
    /\ lastOp' = [op |-> "handleDeleteTransaction", arg |-> undefined]
    /\ UNCHANGED <<importBatches, stBatches, activeTab, nextId, clock, step, file,
                   fileContent, parsedData, callVars, backupVars>>

\* ImportManager.handleFileUpload with the FileReader's onload
FileUpload(f) ==
    /\ RunsHandler
    /\ activeTab = "import"
    /\ step = "upload"
    /\ file' = FileNamed(f.name)
    /\ fileContent' = f.text
    /\ IF endsWith(toLowerCase(f.name), Str(".ofx"))
       THEN LET r == parseOFX(f.text, transactions, TempIdBase)
            IN /\ parsedData' = r.results
               /\ transactions' = r.hist
               /\ pendingSave' = SortedWith(pendingSave, r.hist # transactions)
               /\ step' = "review"
       ELSE /\ step' = IF endsWith(toLowerCase(f.name), Str(".csv")) THEN "map_csv" ELSE step
            /\ pendingSave' = pendingSave
            /\ UNCHANGED <<parsedData, transactions>>
    /\ UNCHANGED <<importBatches, stTransactions, stBatches, activeTab, nextId, clock,
                   lastOp, callVars, backupVars>>

\* ImportManager.processCsvMapping, with the column mapping left at its default
ProcessCsvMapping ==
    /\ RunsHandler
    /\ activeTab = "import"
    /\ step = "map_csv"
    /\ \E engine \in DateEngines :
         LET r == parseCSV(fileContent, DefaultMapping, transactions, TempIdBase, engine)
         IN /\ parsedData' = r.results
            /\ transactions' = r.hist
            /\ pendingSave' = SortedWith(pendingSave, r.hist # transactions)
    /\ step' = "review"
    /\ UNCHANGED <<importBatches, stTransactions, stBatches, activeTab, nextId, clock, file,
                   fileContent, lastOp, callVars, backupVars>>

\* ImportManager.handleRemoveRow
RemoveRow(id) ==
    /\ RunsHandler
    /\ activeTab = "import"
    /\ step = "review"
    /\ id \in Ids(parsedData)
    /\ parsedData' = SelectSeq(parsedData, LAMBDA row : row.id # id)
    /\ pendingSave' = pendingSave
    /\ UNCHANGED <<transactions, importBatches, stTransactions, stBatches, activeTab, nextId,
                   clock, step, file, fileContent, lastOp, callVars, backupVars>>

\* ImportManager.handleUpdateRow
UpdateRow(id, field, value) ==
    /\ RunsHandler
    /\ activeTab = "import"
    /\ step = "review"
    /\ id \in Ids(parsedData)
    /\ parsedData' = [k \in 1..Len(parsedData) |->
                         IF parsedData[k].id = id
                         THEN (IF field = "description"
                               THEN [parsedData[k] EXCEPT !.description = value]
                               ELSE [parsedData[k] EXCEPT !.categoryId = value])
                         ELSE parsedData[k]]
    /\ pendingSave' = pendingSave
    /\ UNCHANGED <<transactions, importBatches, stTransactions, stBatches, activeTab, nextId,
                   clock, step, file, fileContent, lastOp, callVars, backupVars>>

\* parsedData.reduce((acc, curr) => acc + curr.amount, 0)
RECURSIVE SumAmounts(_)
SumAmounts(rows) ==
    IF rows = <<>> THEN Norm(0, 0)
    ELSE Plus(SumAmounts(SubSeq(rows, 1, Len(rows) - 1)), rows[Len(rows)].amount)

\* the total with expenses subtracted
RECURSIVE NetAmounts(_)
NetAmounts(rows) ==
    IF rows = <<>> THEN Norm(0, 0)
    ELSE LET last == rows[Len(rows)]
         IN Plus(NetAmounts(SubSeq(rows, 1, Len(rows) - 1)),
                 IF last.type = "expense" THEN [last.amount EXCEPT !.m = -last.amount.m]
                 ELSE last.amount)

\* batchInfo with the net total
batchInfo_NetTotal(rows, f, batchId, now) ==
    [id |-> batchId,
     fileName |-> IF ~f.isFile \/ Len(f.name) = 0 THEN Str("Importação") ELSE f.name,
     date |-> now,
     count |-> Len(rows),
     totalAmount |-> NetAmounts(rows)]

\* handleFinalizeImport, lines 84-91: the batch record (file?.name || 'Importação')
batchInfo(rows, f, batchId, now) ==
    [id |-> batchId,
     fileName |-> IF ~f.isFile \/ Len(f.name) = 0 THEN Str("Importação") ELSE f.name,
     date |-> now,
     count |-> Len(rows),
     totalAmount |-> SumAmounts(rows)]

\* newTransaction without the batch tag
newTransaction_Untagged(row, id, batchId, now) ==
    [id |-> id,
     description |-> row.description,
     amount |-> row.amount,
     type |-> row.type,
     dateISO |-> row.dateISO,
     categoryId |-> IF row.categoryId = "" THEN "cat_10" ELSE row.categoryId,
     importBatchId |-> undefined,
     isImported |-> TRUE,
     originalDescription |-> Some(row.description),
     recurrence |-> "unique",
     createdAt |-> now]

\* newTransaction without the default category
newTransaction_NoFallback(row, id, batchId, now) ==
    [id |-> id,
     description |-> row.description,
     amount |-> row.amount,
     type |-> row.type,
     dateISO |-> row.dateISO,
     categoryId |-> row.categoryId,
     importBatchId |-> batchId,
     isImported |-> TRUE,
     originalDescription |-> Some(row.description),
     recurrence |-> "unique",
     createdAt |-> now]

\* handleFinalizeImport, lines 93-104, and handleImportTransactions, line 70:
\* the transaction committed for one row
newTransaction(row, id, batchId, now) ==
    [id |-> id,
     description |-> row.description,
     amount |-> row.amount,
     type |-> row.type,
     dateISO |-> row.dateISO,
     categoryId |-> IF row.categoryId = "" THEN "cat_10" ELSE row.categoryId,
     importBatchId |-> batchId,
     isImported |-> TRUE,
     originalDescription |-> Some(row.description),
     recurrence |-> "unique",
     createdAt |-> now]

\* ImportManager.handleFinalizeImport with App.handleImportTransactions, whose
\* setActiveTab('income') takes ImportManager off the screen: the setFile, setParsedData
\* and setStep('history') that follow act on a component that is unmounted in the same
\* render, and the next visit of the import tab mounts a new one
FinalizeImport ==
    /\ RunsHandler
    /\ activeTab = "import"
    /\ step = "review"
    /\ ~(Len(parsedData) = 0)
    /\ Len(transactions) + Len(parsedData) <= MaxTx
    /\ nextId + 1 + Len(parsedData) <= MaxIds
    /\ LET batchId == UUID(nextId + 1)
           processed == [k \in 1..Len(parsedData) |->
                            newTransaction(parsedData[k], UUID(nextId + 1 + k), batchId, clock)]
           updatedTransactions == transactions \o processed
           updatedBatches == Append(importBatches, batchInfo(parsedData, file, batchId, clock))
       IN /\ transactions' = updatedTransactions
          /\ stTransactions' = updatedTransactions
          /\ importBatches' = updatedBatches
          /\ stBatches' = updatedBatches
          /\ lastOp' = [op |-> "handleFinalizeImport", arg |-> batchId]
    /\ nextId' = nextId + 1 + Len(parsedData)
    /\ pendingSave' = Detached(pendingSave)
    /\ activeTab' = "income"
    /\ ImportManagerMounts
    /\ UNCHANGED <<clock, callVars, backupVars>>

\* handleDeleteImportBatch that forgets the batch record
handleDeleteImportBatch_KeepsRecord(txs, batches, batchId) ==
    [transactions |-> SelectSeq(txs, LAMBDA t : t.importBatchId # batchId),
     importBatches |-> batches]

\* handleDeleteImportBatch that removes every imported transaction
handleDeleteImportBatch_AllImported(txs, batches, batchId) ==
    [transactions |-> SelectSeq(txs, LAMBDA t : ~t.isImported),
     importBatches |-> SelectSeq(batches, LAMBDA b : b.id # batchId)]

\* App.handleDeleteImportBatch: the two lists after the filters
handleDeleteImportBatch(txs, batches, batchId) ==
    [transactions |-> SelectSeq(txs, LAMBDA t : t.importBatchId # batchId),
     importBatches |-> SelectSeq(batches, LAMBDA b : b.id # batchId)]

\* an id that no batch carries
ForeignBatchId == UUID(0)

\* the undo button of a batch in the history list, or a caller that passes an id
\* no batch carries
DeleteImportBatch(batchId) ==
    /\ RunsHandler
    /\ activeTab = "import"
    /\ step = "history"
    /\ batchId \in Ids(importBatches) \cup {ForeignBatchId}
    /\ LET r == handleDeleteImportBatch(transactions, importBatches, batchId)
       IN /\ transactions' = r.transactions
          /\ stTransactions' = r.transactions
          /\ importBatches' = r.importBatches
          /\ stBatches' = r.importBatches
    /\ pendingSave' = Detached(pendingSave)
    /\ lastOp' = [op |-> "handleDeleteImportBatch", arg |-> batchId]
    /\ UNCHANGED <<activeTab, nextId, clock, step, file, fileContent, parsedData, callVars, backupVars>>

\* the navigation buttons of ImportManager: setStep('upload'), setStep('history')
GoUpload ==
    /\ RunsHandler
    /\ activeTab = "import"
    /\ step \in {"map_csv", "review", "history"}
    /\ step' = "upload"
    /\ pendingSave' = pendingSave
    /\ UNCHANGED <<transactions, importBatches, stTransactions, stBatches, activeTab, nextId,
                   clock, file, fileContent, parsedData, lastOp, callVars, backupVars>>

GoHistory ==
    /\ RunsHandler
    /\ activeTab = "import"
    /\ step = "upload"
    /\ step' = "history"
    /\ pendingSave' = pendingSave
    /\ UNCHANGED <<transactions, importBatches, stTransactions, stBatches, activeTab, nextId,
                   clock, file, fileContent, parsedData, lastOp, callVars, backupVars>>

Next ==
    \/ \E tab \in {"dashboard", "income", "import"} : SetActiveTab(tab)
    \/ Tick
    \/ \E desc \in FormDescriptions : FormSuggest(desc)
    \/ \E cents \in FormCents, desc \in FormDescriptions, cat \in FormCategories :
          SubmitAdd(cents, desc, cat, "expense")
    \/ \E i \in 1..MaxTx, cents \in FormCents :
          /\ i \in 1..Len(transactions)
          /\ \E desc \in EditDescriptions \cup {transactions[i].description},
                cat \in EditCategories \cup {transactions[i].categoryId} :
                SubmitEdit(i, cents, desc, cat)
    \/ SaveAdd
    \/ SaveEdit
    \/ \E n \in 1..MaxIds : DeleteTransaction(UUID(n))
    \/ \E f \in Files : FileUpload(f)
    \/ ProcessCsvMapping
    \/ \E id \in TempIds : RemoveRow(id)
    \/ \E id \in TempIds, v \in ReviewDescriptions : UpdateRow(id, "description", v)
    \/ \E id \in TempIds, v \in ReviewCategories : UpdateRow(id, "categoryId", v)
    \/ FinalizeImport
    \/ \E n \in 0..MaxIds : DeleteImportBatch(UUID(n))
    \/ GoUpload
    \/ GoHistory

Spec == Init /\ [][Next]_vars

-----------------------------------------------------------------------------
(* The import tab alone: ImportManager from the file picker to the commit and
   the undo, with a statement of two rows among the files *)

\* the files of the application, and a CSV statement with an income row and an
\* expense row
ImportFiles ==
    Files \cup
    {[name |-> Str("mes.csv"),
      text |-> Str("Data,Descricao,Valor\r\n10/01/2024,Pix,100\r\n15/01/2024,Uber,\"-45,90\"\r\n")]}

NextImport ==
    \/ \E tab \in {"income", "import"} : SetActiveTab(tab)
    \/ \E f \in ImportFiles : FileUpload(f)
    \/ ProcessCsvMapping
    \/ \E id \in TempIds : RemoveRow(id)
    \/ \E id \in TempIds, v \in ReviewDescriptions : UpdateRow(id, "description", v)
    \/ \E id \in TempIds, v \in ReviewCategories : UpdateRow(id, "categoryId", v)
    \/ FinalizeImport
    \/ \E n \in 0..MaxIds : DeleteImportBatch(UUID(n))
    \/ GoUpload
    \/ GoHistory

SpecImport == Init /\ [][NextImport]_vars

-----------------------------------------------------------------------------
(* The settings tab: restoring a backup file (App.handleImport with
   StorageService.importData), together with the handlers that change the
   lists a restore replaces (handleAddPatrimony, handleReset) *)

\* what localStorage holds under the four data keys; an absent categories key is None
Stored == [transactions |-> stTransactions, patrimony |-> stPatrimony,
           batches |-> stBatches, categories |-> stCategories]

\* StorageService.getCategories
getCategories(st) == IF st = None THEN DEFAULT_CATEGORIES ELSE st[1]

\* importData that saves the transactions of any JSON document before validating it
importData_SavesFirst(doc, stored) ==
    IF doc.json /\ doc.transactions.isArray
    THEN [stored EXCEPT !.transactions = doc.transactions.items]
            @@ [resolved |-> doc.app = "ORBIS"]
    ELSE stored @@ [resolved |-> FALSE]

\* StorageService.importData, reader.onload (storage.ts 110-127), on the document
\* the file's text parses to: the four keys after it, and whether the promise
\* resolves.  A field of the document is an array or is absent; transactions may
\* also be a value that is not an array.
importData(doc, stored) ==
    IF doc.json /\ doc.app = "ORBIS" /\ doc.transactions.isArray
    THEN [resolved |-> TRUE,
          transactions |-> doc.transactions.items,
          patrimony |-> IF doc.patrimony.isArray THEN doc.patrimony.items
                        ELSE stored.patrimony,
          batches |-> IF doc.batches.isArray THEN doc.batches.items ELSE stored.batches,
          categories |-> Some(IF doc.categories.isArray THEN doc.categories.items
                              ELSE DEFAULT_CATEGORIES)]
    ELSE stored @@ [resolved |-> FALSE]

\* the lists of the installation before the restore: nothing, a hand-entered
\* transaction, or an imported statement with its batch record
InstalledRow ==
    [description |-> Str("Uber"), amount |-> CentsToAmount(4590), type |-> "expense",
     dateISO |-> Str("2024-01-15"), categoryId |-> "cat_2"]
InstalledBatch == batchInfo(<<InstalledRow>>, FileNamed(Str("banco.csv")), UUID(1), 0)
InstalledLists ==
    {[transactions |-> <<>>, batches |-> <<>>],
     [transactions |-> <<ManualTransaction(UUID(1), Str("Padaria"), "cat_1", 0)>>,
      batches |-> <<>>],
     [transactions |-> <<newTransaction(InstalledRow, UUID(2), UUID(1), 0)>>,
      batches |-> <<InstalledBatch>>]}

\* the lists of the backup documents, exported by another installation
BackupTransactions ==
    <<ManualTransaction("uuid-b1", Str("Aluguel"), "cat_5", 0)>>
BackupPatrimony == <<PatrimonyEntry(90, "deposit", 100000, "2023-12-01")>>
BackupBatches ==
    <<batchInfo(<<InstalledRow>>, FileNamed(Str("extrato.ofx")), "uuid-b2", 0)>>
BackupCategories == <<"cat_1", "cat_10", "cat_custom">>

Document(json, app, txs, pats, batches, cats) ==
    [json |-> json, app |-> app, transactions |-> txs, patrimony |-> pats,
     batches |-> batches, categories |-> cats]

\* text that is not JSON; JSON without the marker or with another one; a marked
\* document whose transactions are not an array; marked documents with all four
\* lists, with the transactions only, and with empty lists
BackupDocuments ==
    {Document(FALSE, undefined, NotArray, NotArray, NotArray, NotArray),
     Document(TRUE, undefined, ArrayOf(BackupTransactions), ArrayOf(BackupPatrimony),
              ArrayOf(BackupBatches), ArrayOf(BackupCategories)),
     Document(TRUE, "MONEY", ArrayOf(BackupTransactions), NotArray, NotArray, NotArray),
     Document(TRUE, "ORBIS", NotArray, ArrayOf(BackupPatrimony), ArrayOf(BackupBatches),
              ArrayOf(BackupCategories)),
     Document(TRUE, "ORBIS", ArrayOf(BackupTransactions), ArrayOf(BackupPatrimony),
              ArrayOf(BackupBatches), ArrayOf(BackupCategories)),
     Document(TRUE, "ORBIS", ArrayOf(BackupTransactions), NotArray, NotArray, NotArray),
     Document(TRUE, "ORBIS", ArrayOf(<<>>), ArrayOf(<<>>), ArrayOf(<<>>), NotArray)}

\* the App after its mount effect (part_000 43-48) on an installation's storage
InitBackup ==
    /\ CallIdle
    /\ \E lists \in InstalledLists :
         /\ transactions = lists.transactions /\ stTransactions = lists.transactions
         /\ importBatches = lists.batches /\ stBatches = lists.batches
    /\ patrimonyTransactions = <<>> /\ stPatrimony = <<>>
    /\ stCategories \in {None, Some(DEFAULT_CATEGORIES)}
    /\ categories = getCategories(stCategories)
    /\ backup = NoBackup
    /\ activeTab = "settings"
    /\ ops = 0 /\ nextId = 2 /\ clock = 0
    /\ pendingSave = NoPending
    /\ step = "upload" /\ file = NoFile /\ fileContent = <<>> /\ parsedData = <<>>
    /\ lastOp = [op |-> "mount", arg |-> undefined]

settingsIdle == <<activeTab, clock, pendingSave, step, file, fileContent, parsedData, callVars>>

\* App.handleAddPatrimony (part_000 98-107)
AddPatrimony(type, cents) ==
    /\ RunsHandler
    /\ Len(patrimonyTransactions) < MaxPatrimony
    /\ nextId < MaxIds
    /\ LET updated == Append(patrimonyTransactions,
                          [id |-> UUID(nextId + 1), amount |-> CentsToAmount(cents),
                           type |-> type, dateISO |-> FormDate, createdAt |-> clock])
       IN patrimonyTransactions' = updated /\ stPatrimony' = updated
    /\ nextId' = nextId + 1
    /\ lastOp' = [op |-> "handleAddPatrimony", arg |-> UUID(nextId + 1)]
    /\ UNCHANGED <<transactions, importBatches, stTransactions, stBatches, categories,
                   stCategories, backup, settingsIdle>>

\* App.handleReset (part_000 121-129), confirmed
Reset ==
    /\ RunsHandler
    /\ stTransactions' = <<>> /\ stPatrimony' = <<>> /\ stBatches' = <<>>
    /\ stCategories' = None
    /\ transactions' = <<>> /\ patrimonyTransactions' = <<>> /\ importBatches' = <<>>
    /\ categories' = getCategories(None)
    /\ pendingSave' = Detached(pendingSave)
    /\ lastOp' = [op |-> "handleReset", arg |-> undefined]
    /\ UNCHANGED <<nextId, backup, activeTab, clock, step, file, fileContent, parsedData,
                   callVars>>

\* App.handleImport (part_000 131-134): a file is chosen and importData starts to
\* read it
ChooseBackup(doc) ==
    /\ RunsHandler
    /\ backup.status # "reading"
    /\ backup' = [status |-> "reading", doc |-> doc]
    /\ lastOp' = [op |-> "handleImport", arg |-> undefined]
    /\ UNCHANGED <<transactions, importBatches, stTransactions, stBatches, nextId,
                   patrimonyTransactions, categories, stPatrimony, stCategories,
                   settingsIdle>>

\* reader.onload runs importData's body; the promise settles and handleImport
\* continues (part_000 135-143): the four states are read back from storage when it
\* resolved, and only an alert is shown when it rejected
BackupLoaded ==
    /\ backup.status = "reading"
    /\ LET r == importData(backup.doc, Stored)
       IN /\ stTransactions' = r.transactions /\ stPatrimony' = r.patrimony
          /\ stBatches' = r.batches /\ stCategories' = r.categories
          /\ IF r.resolved
             THEN /\ transactions' = r.transactions
                  /\ patrimonyTransactions' = r.patrimony
                  /\ categories' = getCategories(r.categories)
                  /\ importBatches' = r.batches
                  /\ pendingSave' = Detached(pendingSave)
                  /\ backup' = [backup EXCEPT !.status = "imported"]
             ELSE /\ UNCHANGED <<transactions, patrimonyTransactions, categories,
                                 importBatches, pendingSave>>
                  /\ backup' = [backup EXCEPT !.status = "rejected"]
    /\ lastOp' = [op |-> "importData", arg |-> undefined]
    /\ UNCHANGED <<ops, nextId, activeTab, clock, step, file, fileContent, parsedData,
                   callVars>>

NextBackup ==
    \/ \E type \in {"deposit", "withdraw"} : AddPatrimony(type, 50000)
    \/ Reset
    \/ \E doc \in BackupDocuments : ChooseBackup(doc)
    \/ BackupLoaded

SpecBackup == InitBackup /\ [][NextBackup]_vars

-----------------------------------------------------------------------------
(* The patrimony tab: deposits and withdrawals added one by one to an empty
   patrimony (PatrimonyActionModal accepts every amount > 0) *)

PatrimonyCents == {10, 20, 30}

NextPatrimony ==
    \E type \in {"deposit", "withdraw"}, cents \in PatrimonyCents : AddPatrimony(type, cents)

SpecPatrimony == Init /\ [][NextPatrimony]_vars

-----------------------------------------------------------------------------
(* Every handler of the App that writes the store, with the calls of
   suggestCategory on the App's transactions array (the form's auto-suggestion and
   the statement parsers) between them *)

\* a backup that restores all four lists
StoreDocuments ==
    {Document(TRUE, "ORBIS", ArrayOf(BackupTransactions), ArrayOf(BackupPatrimony),
              ArrayOf(BackupBatches), ArrayOf(BackupCategories))}

NextStore ==
    \/ \E tab \in {"income", "import"} : SetActiveTab(tab)
    \/ \E desc \in FormDescriptions : FormSuggest(desc)
    \/ \E desc \in FormDescriptions : SubmitAdd(1000, desc, "cat_4", "expense")
    \/ /\ Len(transactions) > 0
       /\ \E desc \in EditDescriptions :
             SubmitEdit(1, 1000, desc, transactions[1].categoryId)
    \/ SaveAdd
    \/ SaveEdit
    \/ \E n \in 1..MaxIds : DeleteTransaction(UUID(n))
    \/ \E f \in {g \in Files : g.name = Str("banco.csv")} : FileUpload(f)
    \/ ProcessCsvMapping
    \/ FinalizeImport
    \/ \E n \in 1..MaxIds : DeleteImportBatch(UUID(n))
    \/ GoHistory
    \/ Len(patrimonyTransactions) < 2 /\ AddPatrimony("deposit", 50000)
    \/ Reset
    \/ \E doc \in StoreDocuments : ChooseBackup(doc)
    \/ BackupLoaded
    \/ Tick

SpecStore == Init /\ [][NextStore]_vars

-----------------------------------------------------------------------------
(* Properties of the two statement parsers (SpecOFX, SpecCSV) *)

\* candidates compared without their random ids
WithoutIds(rs) == [i \in 1..Len(rs) |-> [rs[i] EXCEPT !.id = ""]]

\* a non-empty run of digits
IsNumeral(s) == s # <<>> /\ AllDigits(s)

\* text that reads as a date: three numerals separated by '/' or by '-'
ReadsAsDate(s) ==
    \/ Len(split(s, Slash)) = 3 /\ \A i \in 1..3 : IsNumeral(split(s, Slash)[i])
    \/ Len(split(s, Dash)) = 3 /\ \A i \in 1..3 : IsNumeral(split(s, Dash)[i])

\* text that reads as an amount: it has a digit
ReadsAsAmount(s) == \E i \in 1..Len(s) : IsDigit(s[i])

\* a row with a date cell and an amount cell that can be read
ReadableRow(line) ==
    LET cols == csvCols(line)
    IN /\ Len(cols) > DefaultMapping.amountIndex
       /\ ReadsAsDate(cols[DefaultMapping.dateIndex + 1])
       /\ ReadsAsAmount(cols[DefaultMapping.amountIndex + 1])

\* C11: a CSV row whose date or amount cannot be read gives no candidate, and the
\* candidates of the file are those of the file without such rows, in the same order
C11_BadRowsSkipped ==
    (pc = "done" /\ mapping = DefaultMapping) =>
        LET lines == splitLines(content)
            readable == SelectSeq(lines, ReadableRow)
        IN /\ Len(results) <= Len(readable)
           /\ \E engine \in DateEngines :
                 WithoutIds(results)
                   = WithoutIds(parseCSV(JoinLines(readable), mapping, history, 0, engine).results)

\* C12: every candidate of parseOFX has an amount >= 0 that is the absolute value of
\* the raw amount of its block, with type 'expense' exactly when the raw amount is
\* negative and 'income' otherwise
C12_SignConvention ==
    pc = "done" =>
        LET blocks == SelectSeq(Tail(split(content, TagSTMTTRN)), OFXBlockOk)
        IN /\ Len(results) = Len(blocks)
           /\ \A i \in 1..Len(results) :
                 LET raw == parseFloat(MatchRun(blocks[i], TagTRNAMT, "amount").text)
                 IN /\ ~isNaN(results[i].amount)
                    /\ ~IsNegative(results[i].amount)
                    /\ results[i].amount = abs(raw)
                    /\ results[i].type = (IF IsNegative(raw) THEN "expense" ELSE "income")

-----------------------------------------------------------------------------
(* Properties of the dashboard's analytics (SpecAnalytics) *)

Contains(arr, x) == \E i \in 1..Len(arr) : arr[i] = x

\* the calendar day `days` days before the day of the call
WindowStart(days) == DayOf(subDays(callTime, days))
OnOrAfter(text, day) ==
    /\ parseISO(text).valid
    /\ DateKey(text) >= day.y * 10000 + day.m * 100 + day.d

\* C15: a numeric window keeps exactly the transactions whose calendar date is
\* on or after the calendar date (today - days), whatever the time of day of
\* the call, and returns them sorted ascending by date.
C15_WindowBoundary ==
    (out.fn = "filterTransactions" /\ ~window.all) =>
        /\ \A i \in 1..Len(history) :
              Contains(out.value, history[i])
                <=> OnOrAfter(history[i].dateISO, WindowStart(window.days))
        /\ \A i \in 1..Len(out.value) : Contains(history, out.value[i])
        /\ Len(out.value) <= Len(history)
        /\ \A i, j \in 1..Len(out.value) :
              i < j => DateKey(out.value[i].dateISO) <= DateKey(out.value[j].dateISO)

\* C16: at one instant, what a numeric window keeps a longer numeric window
\* keeps too, so the shorter window's result is no longer than the longer one's,
\* and no result is longer than that of 'all', which returns every element.
C16_WindowMonotone ==
    out.fn = "filterTransactions" =>
        /\ \A p \in Periods :
              (~window.all /\ ~p.all /\ window.days < p.days) =>
                LET wider == filterTransactions(history, p, callTime)
                IN /\ \A i \in 1..Len(out.value) : Contains(wider, out.value[i])
                   /\ Len(out.value) <= Len(wider)
        /\ Len(out.value) <= Len(filterTransactions(history, AllTime, callTime))
        /\ filterTransactions(history, AllTime, callTime) = history

\* the 7-day window kept something, and the 30-day window keeps more
C16_Witness ==
    /\ out.fn = "filterTransactions" /\ window = Period(7)
    /\ Len(out.value) >= 1
    /\ Len(out.value) < Len(filterTransactions(history, Period(30), callTime))

\* the list getSummary was given
Given == CHOOSE txs \in calls : TRUE
OfType(arr, type) == SelectSeq(arr, LAMBDA t : t.type = type)

\* C17 as stated: balance = totalIncome - totalExpense and
\* availableCash + patrimonyTotal = balance, with the totals being the sums by
\* type over the given transactions and over the whole patrimony list.
C17_BalanceIdentity ==
    out.fn = "getSummary" =>
        /\ out.value.totalIncome = SumOfAmounts(OfType(Given, "income"))
        /\ out.value.totalExpense = SumOfAmounts(OfType(Given, "expense"))
        /\ out.value.patrimonyTotal = calculateTotal(patrimony)
        /\ out.value.balance = DMinus(out.value.totalIncome, out.value.totalExpense)
        /\ DAdd(out.value.availableCash, out.value.patrimonyTotal) = out.value.balance

\* C17 amended: balance = totalIncome - totalExpense and
\* availableCash = balance - patrimonyTotal, each one subtraction of JavaScript
\* numbers, with the totals being the sums by type over the given transactions
\* and over the whole patrimony list.
C17_BalanceDefinitions ==
    out.fn = "getSummary" =>
        /\ out.value.totalIncome = SumOfAmounts(OfType(Given, "income"))
        /\ out.value.totalExpense = SumOfAmounts(OfType(Given, "expense"))
        /\ out.value.patrimonyTotal = calculateTotal(patrimony)
        /\ out.value.balance = DMinus(out.value.totalIncome, out.value.totalExpense)
        /\ out.value.availableCash
             = DMinus(out.value.balance, out.value.patrimonyTotal)

\* a summary of a list with income and expense, and a patrimony with a deposit
\* and a withdrawal
C17_Witness ==
    /\ out.fn = "getSummary"
    /\ OfType(Given, "income") # <<>> /\ OfType(Given, "expense") # <<>>
    /\ OfType(patrimony, "deposit") # <<>> /\ OfType(patrimony, "withdraw") # <<>>

-----------------------------------------------------------------------------
(* Properties of the monthly average and of the balance history (SpecReports) *)

\* the months as consecutive numbers
MonthNumber(day) == day.y * 12 + day.m

\* the cents of the expenses dated on a real day of the month with this number
RECURSIVE ExpenseCentsIn(_, _)
ExpenseCentsIn(arr, month) ==
    IF arr = <<>> THEN 0
    ELSE LET t == arr[Len(arr)]
             day == parseISO(t.dateISO)
         IN ExpenseCentsIn(SubSeq(arr, 1, Len(arr) - 1), month)
              + (IF t.type = "expense" /\ day.valid /\ MonthNumber(day) = month
                 THEN t.amount.m * Pow10(2 - t.amount.e) ELSE 0)

RECURSIVE CentsOfMonths(_, _, _)
CentsOfMonths(arr, month, n) ==
    IF n <= 0 THEN 0
    ELSE ExpenseCentsIn(arr, month - n) + CentsOfMonths(arr, month, n - 1)

\* C25: getAverageMonthlyExpenses(tx, N) is the sum of the expense totals of the N
\* calendar months before the current one divided by the number of those months
\* whose total is > 0, and 0 when there is none; without the transactions of the
\* current month and the income transactions the result is the same
C25_AverageMonthlyExpenses ==
    out.fn = "getAverageMonthlyExpenses" =>
        LET n == out.monthsToAnalyze
            this == MonthNumber(DayOf(callTime))
            withExpenses == {i \in 1..n : ExpenseCentsIn(history, this - i) > 0}
            others == SelectSeq(history, LAMBDA t :
                         t.type = "expense"
                            /\ ~isSameMonth(parseISO(t.dateISO), DayOf(callTime)))
        IN /\ out.value = IF withExpenses = {} THEN Frac(0, 1)
                          ELSE Frac(CentsOfMonths(history, this, n),
                                    100 * Cardinality(withExpenses))
           /\ out.value = getAverageMonthlyExpenses(others, n, DayOf(callTime))

\* the default three months on 31 March, of which February has no expense: the
\* expenses of January and December are divided by 2, and an income of February and
\* an expense of March play no part
C25_Witness ==
    /\ out.fn = "getAverageMonthlyExpenses" /\ out.monthsToAnalyze = 3
    /\ DayOf(callTime) = Day(2024, 3, 31)
    /\ {[type |-> history[i].type, date |-> history[i].dateISO] : i \in 1..Len(history)}
          = {[type |-> "expense", date |-> Str("2024-01-31")],
             [type |-> "expense", date |-> Str("2023-12-20")],
             [type |-> "expense", date |-> Str("2024-03-05")]}
    /\ out.value = Frac(2530, 200)

\* the distinct days of a list, and those up to a day
DaysOf(arr) == {arr[i].dateISO : i \in 1..Len(arr)}
UpTo(arr, day) == SelectSeq(arr, LAMBDA t : DateKey(t.dateISO) <= DateKey(day))

\* income amounts minus expense amounts
BalanceOf(arr) ==
    DMinus(SumOfAmounts(OfType(arr, "income")), SumOfAmounts(OfType(arr, "expense")))

\* C26: getBalanceHistory returns one point per distinct day that has a
\* transaction, in ascending date order; the balance of a point is the sum of the
\* income amounts minus the sum of the expense amounts of the transactions dated on
\* or before its day, and the last balance is the balance of getSummary for the list
C26_BalanceHistory ==
    out.fn = "getBalanceHistory" =>
        LET points == out.value.points
            days == DaysOf(history)
        IN /\ ~out.value.threw
           /\ Len(points) = Cardinality(days)
           /\ \A day \in days :
                 LET k == Cardinality({d \in days : DateKey(d) <= DateKey(day)})
                 IN /\ points[k].date = DayLabel(day)
                    /\ points[k].balance = BalanceOf(UpTo(history, day))
           /\ Len(points) > 0
                 => points[Len(points)].balance = getSummary(history, <<>>).balance

-----------------------------------------------------------------------------
(* Properties of the patrimony total (SpecPatrimony) *)

\* withdrawals exceed deposits, as decimal amounts
WithdrawalsExceedDeposits(pats) ==
    LET d == TotalAmount(OfType(pats, "deposit"))
        w == TotalAmount(OfType(pats, "withdraw"))
    IN IsPositive(Plus(w, [d EXCEPT !.m = -d.m]))

\* C23 as stated: calculateTotal of the patrimony list is the sum of the deposit
\* amounts minus the sum of the withdraw amounts, and is negative when
\* withdrawals exceed deposits
C23_TotalIsDifference ==
    /\ calculateTotal(patrimonyTransactions)
          = DMinus(SumOfAmounts(OfType(patrimonyTransactions, "deposit")),
                   SumOfAmounts(OfType(patrimonyTransactions, "withdraw")))
    /\ WithdrawalsExceedDeposits(patrimonyTransactions)
          => calculateTotal(patrimonyTransactions).sign = 1

\* C23 amended: every record handleAddPatrimony is given is appended, whatever the
\* total was; calculateTotal of the new list is the total of the old list plus the
\* amount of a deposit or minus the amount of a withdrawal, one operation on
\* JavaScript numbers per record in list order, and it is negative when withdrawals
\* exceed deposits
C23_TotalNeverClamped ==
    [][\A type \in {"deposit", "withdraw"}, cents \in PatrimonyCents :
          AddPatrimony(type, cents) =>
             LET amount == ToDouble(CentsToAmount(cents))
                 before == calculateTotal(patrimonyTransactions)
                 after == calculateTotal(patrimonyTransactions')
             IN /\ Len(patrimonyTransactions') = Len(patrimonyTransactions) + 1
                /\ after = IF type = "deposit" THEN DAdd(before, amount)
                           ELSE DMinus(before, amount)
                /\ WithdrawalsExceedDeposits(patrimonyTransactions')
                      => (after.sign = 1 /\ after.man # <<>>)]_vars

\* a withdrawal of 0.30 accepted on a total of 0.10: the total is negative
C23_Witness ==
    /\ lastOp.op = "handleAddPatrimony"
    /\ Len(patrimonyTransactions) = 2
    /\ patrimonyTransactions[1].type = "deposit"
    /\ patrimonyTransactions[1].amount = CentsToAmount(10)
    /\ patrimonyTransactions[2].type = "withdraw"
    /\ patrimonyTransactions[2].amount = CentsToAmount(30)
    /\ calculateTotal(patrimonyTransactions).sign = 1
    /\ stPatrimony = patrimonyTransactions

-----------------------------------------------------------------------------
(* Properties of the header insight (SpecInsight) *)

\* what the rules read on the day a recorded call was made
FactsOn(day) == InsightFacts(history, patrimony, Instant(day[1], day[2], day[3], FALSE))

FirstRule(f) ==
    IF OverspendRule(f) THEN "overspend"
    ELSE IF InvisibleRule(f) THEN "invisible"
    ELSE IF PatrimonyRule(f) THEN "patrimony"
    ELSE IF DisciplinedRule(f) THEN "disciplined"
    ELSE "tip"

StatusOf(rule) ==
    CASE rule = "overspend" -> "warning"
      [] rule \in {"patrimony", "disciplined"} -> "good"
      [] OTHER -> "neutral"

\* C13: every insight returned is the output of the first rule whose condition
\* holds, in the order overspend, invisible small costs, patrimony growth,
\* disciplined spending, daily tip; when the average is positive and the
\* projection exceeds 120% of it the status is 'warning', whatever deposits or
\* small recurring expenses there are.
C13_CascadeOrder ==
    \A c \in calls :
        LET f == FactsOn(c.day)
        IN /\ c.text.rule = FirstRule(f)
           /\ c.status = StatusOf(c.text.rule)
           /\ (f.averageMonthly.n > 0
                 /\ FLess(FTimes(f.averageMonthly, Frac(6, 5)), f.projection))
                => c.status = "warning"

\* an overspending month that also has a deposit and qualifying small expenses
C13_Witness ==
    \E c \in calls :
        LET f == FactsOn(c.day)
        IN /\ OverspendRule(f) /\ InvisibleRule(f) /\ f.patrimonyDeposits.n > 0
           /\ c.status = "warning"

\* C24: when no earlier rule matches, the average is > 0 and the projection is
\* below 85% of it, the call returns the disciplined-spending insight with status
\* 'good' exactly when the day of the month is >= 5
C24_DisciplinedDayGate ==
    \A c \in calls :
        LET f == FactsOn(c.day)
        IN (/\ ~OverspendRule(f) /\ ~InvisibleRule(f) /\ ~PatrimonyRule(f)
            /\ f.averageMonthly.n > 0
            /\ FLess(f.projection, FTimes(f.averageMonthly, Frac(85, 100))))
           => ((c.text.rule = "disciplined" /\ c.status = "good") <=> c.day[3] >= 5)

-----------------------------------------------------------------------------
(* Properties of the backup restore (SpecBackup) *)

PassesValidation(doc) == doc.json /\ doc.app = "ORBIS" /\ doc.transactions.isArray
ItemsOf(field) == IF field.isArray THEN field.items ELSE <<>>
DataLists ==
    <<stTransactions, stPatrimony, stBatches, stCategories,
      transactions, patrimonyTransactions, importBatches, categories>>

\* C18: once importData has resolved for a document that passes validation, the
\* persisted transaction, patrimony, category and batch lists are those of the
\* document, and no record of the patrimony or batch lists stored before remains.
C18_RestoreReplacesStore ==
    (lastOp.op = "importData" /\ backup.status = "imported") =>
        /\ PassesValidation(backup.doc)
        /\ stTransactions = backup.doc.transactions.items
        /\ \A i \in 1..Len(stPatrimony) :
              Contains(ItemsOf(backup.doc.patrimony), stPatrimony[i])
        /\ \A i \in 1..Len(stBatches) :
              Contains(ItemsOf(backup.doc.batches), stBatches[i])
        /\ backup.doc.patrimony.isArray => stPatrimony = backup.doc.patrimony.items
        /\ backup.doc.batches.isArray => stBatches = backup.doc.batches.items
        /\ backup.doc.categories.isArray
              => stCategories = Some(backup.doc.categories.items)

\* C19: when the document is not valid JSON, lacks the marker 'ORBIS' or has
\* transactions that are not an array, the promise rejects and the four
\* persisted lists and the four lists in memory are as before the call.
C19_RejectedLeavesState ==
    [][(BackupLoaded /\ ~PassesValidation(backup.doc))
          => (backup'.status = "rejected" /\ UNCHANGED DataLists)]_vars

\* a rejected restore on an installation that has transactions and patrimony
C19_Witness ==
    /\ lastOp.op = "importData" /\ backup.status = "rejected"
    /\ backup.doc.json /\ backup.doc.transactions.isArray
    /\ stTransactions # <<>> /\ stPatrimony # <<>>

-----------------------------------------------------------------------------
(* Properties of the import tab (SpecImport) *)

\* the transactions that carry this batch id
InBatch(arr, batchId) == SelectSeq(arr, LAMBDA t : t.importBatchId = batchId)

\* the amounts of one type added up
TotalOfType(arr, type) == SumAmounts(SelectSeq(arr, LAMBDA t : t.type = type))

\* C21: the batch record a commit creates has count equal to the number of
\* transactions committed with its id, and totalAmount equal to the sum of their
\* income amounts plus the sum of their expense amounts
C21_BatchTotals ==
    [][FinalizeImport =>
          LET batch == importBatches'[Len(importBatches')]
              committed == InBatch(transactions', batch.id)
          IN /\ batch.count = Len(committed)
             /\ batch.totalAmount = Plus(TotalOfType(committed, "income"),
                                         TotalOfType(committed, "expense"))]_vars

\* a commit of an income of 100 and an expense of 45.90 in one batch of total 145.90
C21_Witness ==
    /\ lastOp.op = "handleFinalizeImport"
    /\ Len(importBatches) = 1
    /\ importBatches[1].id = lastOp.arg
    /\ importBatches[1].count = 2
    /\ importBatches[1].totalAmount = Norm(14590, 2)
    /\ {t.type : t \in {transactions[k] : k \in 1..Len(transactions)}} = {"income", "expense"}
    /\ \A k \in 1..Len(transactions) : transactions[k].importBatchId = lastOp.arg

\* what a review row and the transaction committed from it have in common
CandidateOf(r) ==
    [description |-> r.description, amount |-> r.amount, type |-> r.type,
     dateISO |-> r.dateISO]

\* a step that adds a batch or a transaction is a commit of the review table as it
\* stands (at least one row, the removed rows gone), and leaves the table empty
CommitsReviewTable ==
    (Len(importBatches') > Len(importBatches) \/ Len(transactions') > Len(transactions)) =>
        /\ step = "review"
        /\ Len(parsedData) >= 1
        /\ Len(importBatches') = Len(importBatches) + 1
        /\ LET batch == importBatches'[Len(importBatches')]
               committed == InBatch(transactions', batch.id)
           IN /\ Len(transactions') = Len(transactions) + Len(parsedData)
              /\ [k \in 1..Len(committed) |-> CandidateOf(committed[k])]
                     = [k \in 1..Len(parsedData) |-> CandidateOf(parsedData[k])]
        /\ parsedData' = <<>>

\* C30: a reviewed candidate list is committed at most once: a batch and its
\* transactions are created only from a review table of at least one row, the rows
\* removed during the review are not committed, and after the commit the candidate
\* list is empty and the step is 'history'.
C30_CommittedAtMostOnce ==
    [][/\ CommitsReviewTable
       /\ FinalizeImport => step' = "history"]_vars

-----------------------------------------------------------------------------
(* Properties of the application (Spec) *)

BatchIds == {UUID(n) : n \in 0..MaxIds}
CarriedBy(arr, batchId) == {i \in 1..Len(arr) : arr[i].importBatchId = batchId}

\* C1: when handleDeleteImportBatch(batchId) has run, no transaction with that
\* importBatchId and no batch record with that id is left, in memory and in the
\* persisted lists alike: the step that removes the one removes the other
C1_BatchUndoComplete ==
    [][\A b \in BatchIds :
          DeleteImportBatch(b) =>
              /\ CarriedBy(transactions', b) = {}
              /\ CarriedBy(stTransactions', b) = {}
              /\ b \notin Ids(importBatches')
              /\ b \notin Ids(stBatches')]_vars

\* a session of one import and its undo: the batch and its transaction are gone
C1_Witness ==
    /\ lastOp.op = "handleDeleteImportBatch"
    /\ lastOp.arg # ForeignBatchId
    /\ nextId = 2 /\ ops <= 6
    /\ transactions = <<>> /\ stTransactions = <<>>
    /\ importBatches = <<>> /\ stBatches = <<>>

\* C2: committing a non-empty reviewed list adds one batch record with an id nothing
\* carried before and one transaction per candidate, each with importBatchId equal to
\* that id, isImported = true, originalDescription equal to the description at commit
\* time, and recurrence 'unique'
C2_CommitTagsEveryRecord ==
    [][FinalizeImport =>
          /\ Len(importBatches') = Len(importBatches) + 1
          /\ SubSeq(importBatches', 1, Len(importBatches)) = importBatches
          /\ Len(transactions') = Len(transactions) + Len(parsedData)
          /\ SubSeq(transactions', 1, Len(transactions)) = transactions
          /\ stTransactions' = transactions' /\ stBatches' = importBatches'
          /\ LET batch == importBatches'[Len(importBatches')]
             IN /\ batch.id \notin Ids(importBatches) \cup Ids(transactions)
                /\ CarriedBy(transactions, batch.id) = {}
                /\ \A k \in 1..Len(parsedData) :
                      LET t == transactions'[Len(transactions) + k]
                      IN /\ t.importBatchId = batch.id
                         /\ t.isImported = TRUE
                         /\ t.description = parsedData[k].description
                         /\ t.originalDescription = Some(parsedData[k].description)
                         /\ t.recurrence = "unique"]_vars

\* a commit of a candidate whose description was edited during the review
C2_Witness ==
    /\ lastOp.op = "handleFinalizeImport"
    /\ lastOp.arg \in Ids(importBatches)
    /\ \E i \in 1..Len(transactions) :
          /\ transactions[i].importBatchId = lastOp.arg
          /\ transactions[i].isImported
          /\ transactions[i].description \in ReviewDescriptions
          /\ transactions[i].originalDescription = Some(transactions[i].description)
          /\ transactions[i].recurrence = "unique"

\* the positions of the transaction with this id
PositionsOf(arr, id) == {k \in 1..Len(arr) : arr[k].id = id}

\* C20: when the save of an edit of an imported transaction runs, the edited
\* transaction keeps its id, createdAt, importBatchId, isImported and
\* originalDescription, no other transaction changes, the "edited" mark is set exactly
\* when the description differs from the original one, and an undo of its batch
\* removes the edited transaction
C20_EditKeepsProvenance ==
    [][(SaveEdit /\ pendingSave.editing.isImported) =>
          LET e == pendingSave.editing
          IN /\ Len(transactions') = Len(transactions)
             /\ \A k \in 1..Len(transactions) :
                   LET before == transactions[k]
                       after == transactions'[k]
                   IN IF before.id = e.id
                      THEN /\ after.id = before.id
                           /\ after.createdAt = before.createdAt
                           /\ after.importBatchId = before.importBatchId
                           /\ after.isImported = before.isImported
                           /\ after.originalDescription = before.originalDescription
                           /\ isEdited(after)
                                 <=> (Some(after.description) # before.originalDescription)
                      ELSE after = before
             /\ PositionsOf(handleDeleteImportBatch(transactions', importBatches',
                                                     e.importBatchId).transactions,
                            e.id) = {}]_vars

\* the elements of a list
ElementsOf(arr) == {arr[i] : i \in 1..Len(arr)}

\* C27: when the delayed save of an add runs, the store and the persisted list are
\* the store as the handlers that ran during the wait left it, with the new
\* transaction added: nothing that was deleted meanwhile is back and no edit made
\* meanwhile is undone
C27_NoLostUpdate ==
    [][SaveAdd =>
          /\ Len(transactions') = Len(transactions) + 1
          /\ ElementsOf(transactions) \subseteq ElementsOf(transactions')
          /\ \E t \in ElementsOf(transactions') \ ElementsOf(transactions) :
                /\ t.id \notin Ids(transactions)
                /\ t.description = pendingSave.data.description
                /\ t.amount = pendingSave.data.amount
          /\ stTransactions' = transactions']_vars

\* C28: every stored transaction that carries an importBatchId has a batch record
\* with that id in the batch list, in memory and persisted
C28_NoOrphanImported ==
    /\ \A t \in ElementsOf(transactions) :
          t.importBatchId # undefined => t.importBatchId \in Ids(importBatches)
    /\ \A t \in ElementsOf(stTransactions) :
          t.importBatchId # undefined => t.importBatchId \in Ids(stBatches)

\* C3: every committed transaction, in memory and persisted, has amount > 0
C3_AmountsPositive ==
    /\ \A i \in 1..Len(transactions) : IsPositive(transactions[i].amount)
    /\ \A i \in 1..Len(stTransactions) : IsPositive(stTransactions[i].amount)

\* C4: every transaction a commit produces has a non-empty categoryId: 'cat_10' when
\* the candidate's categoryId is empty, the candidate's categoryId otherwise
C4_CategoryFallback ==
    [][FinalizeImport =>
          \A k \in 1..Len(parsedData) :
              LET t == transactions'[Len(transactions) + k]
              IN /\ t.categoryId # ""
                 /\ parsedData[k].categoryId = "" => t.categoryId = "cat_10"
                 /\ parsedData[k].categoryId # "" => t.categoryId = parsedData[k].categoryId]_vars

\* two commits: one of a candidate without a category, one of a classified candidate
C4_Witness ==
    /\ lastOp.op = "handleFinalizeImport"
    /\ \E i, j \in 1..Len(transactions) :
          /\ transactions[i].isImported /\ transactions[i].categoryId = "cat_10"
          /\ transactions[i].description = Str("PIX")
          /\ transactions[j].isImported /\ transactions[j].categoryId = "cat_6"

\* C5: handleDeleteImportBatch(batchId) leaves every transaction with another
\* importBatchId (manual ones included) and every batch record with another id as they
\* were, and changes neither list when nothing carries batchId
C5_BatchUndoFrame ==
    [][\A b \in BatchIds :
          DeleteImportBatch(b) =>
              /\ SelectSeq(transactions', LAMBDA t : t.importBatchId # b)
                    = SelectSeq(transactions, LAMBDA t : t.importBatchId # b)
              /\ SelectSeq(importBatches', LAMBDA r : r.id # b)
                    = SelectSeq(importBatches, LAMBDA r : r.id # b)
              /\ stTransactions' = transactions' /\ stBatches' = importBatches'
              /\ (CarriedBy(transactions, b) = {} /\ b \notin Ids(importBatches))
                    => (transactions' = transactions /\ importBatches' = importBatches)]_vars

\* the undo of one of two batches: the other batch and its transaction are still there
C5_Witness ==
    /\ lastOp.op = "handleDeleteImportBatch"
    /\ lastOp.arg # ForeignBatchId
    /\ nextId = 4 /\ ops <= 9
    /\ Len(importBatches) = 1 /\ Len(transactions) = 1
    /\ transactions[1].importBatchId = importBatches[1].id
    /\ stTransactions = transactions /\ stBatches = importBatches

-----------------------------------------------------------------------------
(* Properties of the store (SpecStore) *)

\* how many times the record x is in the list
TimesIn(x, arr) == Cardinality({i \in 1..Len(arr) : arr[i] = x})

\* the two lists hold the same records, each as many times, in whatever order
SameRecords(a, b) ==
    /\ Len(a) = Len(b)
    /\ \A x \in ElementsOf(a) \cup ElementsOf(b) : TimesIn(x, a) = TimesIn(x, b)

-----------------------------------------------------------------------------
(* Properties of the category classifier (SpecClassify) *)

\* C6: when the trimmed lower-case term has length >= 3 and some history transaction's
\* lower-cased description contains the term or is contained in it, suggestCategory
\* returns the categoryId of a matching transaction of greatest createdAt, whether or
\* not a dictionary keyword matches the term too.
C6_HistoryMatchWins ==
    [][(pc = "call" /\ pc' = "done") =>
        LET term == toLowerCase(trim(description))
            m == {i \in 1..Len(history) :
                    \/ includes(toLowerCase(history[i].description), term)
                    \/ includes(term, toLowerCase(history[i].description))}
        IN (Len(term) >= 3 /\ m # {}) =>
              \E i \in m :
                 /\ \A j \in m : history[j].createdAt <= history[i].createdAt
                 /\ suggested' = history[i].categoryId]_vars

\* C6 witness: a call whose term matches two history transactions of different age
\* and category and also a keyword of another category; the newer one's category won.
C6_Witness ==
    /\ pc = "done"
    /\ description = Str(" Uber ")
    /\ Len(history) = 2
    /\ history[1].description = Str("Uber Eats") /\ history[2].description = Str("uber")
    /\ history[1].createdAt > history[2].createdAt
    /\ history[1].categoryId = "cat_10" /\ history[2].categoryId = "cat_4"
    /\ KeywordCategory(Str("uber")) = "cat_6"
    /\ suggested = "cat_10"

\* the order of the dictionary's categories
DictionaryOrder ==
    <<"cat_4", "cat_6", "cat_11", "cat_8", "cat_5", "cat_7", "cat_9", "cat_3", "cat_1">>

\* the keywords the dictionary lists under a category id
KeywordsOf(cat) ==
    UNION {{Str(KEYWORD_TABLE[i][2][k]) : k \in 1..Len(KEYWORD_TABLE[i][2])} :
              i \in {j \in 1..Len(KEYWORD_TABLE) : KEYWORD_TABLE[j][1] = cat}}

\* C22: a term shorter than 3 characters gives null; a term of length >= 3 that no
\* history transaction matches gives the first category, in the order cat_4, cat_6,
\* cat_11, cat_8, cat_5, cat_7, cat_9, cat_3, cat_1, that has a keyword contained in
\* the term, and null when no category has one
C22_KeywordFallback ==
    [][(pc = "call" /\ pc' = "done") =>
        LET term == toLowerCase(trim(description))
            m == {i \in 1..Len(history) :
                    \/ includes(toLowerCase(history[i].description), term)
                    \/ includes(term, toLowerCase(history[i].description))}
            hits == {n \in 1..Len(DictionaryOrder) :
                       \E k \in KeywordsOf(DictionaryOrder[n]) : includes(term, k)}
        IN /\ Len(term) < 3 => suggested' = null
           /\ (Len(term) >= 3 /\ m = {}) =>
                 suggested' = IF hits = {} THEN null
                              ELSE DictionaryOrder[CHOOSE n \in hits :
                                                      \A o \in hits : n <= o]]_vars

\* C22 witness: a call whose term holds a keyword of cat_6 before one of cat_4, with a
\* history that does not match it; cat_4 is returned
C22_Witness ==
    /\ pc = "done"
    /\ description = Str("Uber Pizza")
    /\ Len(history) = 1
    /\ history[1].description = Str("Mercado Sol")
    /\ history[1].categoryId = "cat_10"
    /\ suggested = "cat_4"

\* C7: suggestCategory leaves the caller's history array as it was: the same
\* transactions in the same order.
C7_HistoryUntouched ==
    [][(pc = "call" /\ pc' = "done") => history' = history]_vars

-----------------------------------------------------------------------------
(* Properties of the OFX parser (SpecOFX) *)

\* C8: parseOFX of the one-line example with an empty history returns exactly one
\* candidate: 2024-01-15, description "UBER TRIP", amount 45.90, expense, cat_6.
C8_OFXExample ==
    (pc = "done" /\ content = OFXExample /\ history = <<>>) =>
        /\ Len(results) = 1
        /\ results[1].dateISO = Str("2024-01-15")
        /\ results[1].description = Str("UBER TRIP")
        /\ results[1].amount = Norm(4590, 2)
        /\ results[1].type = "expense"
        /\ results[1].categoryId = "cat_6"

-----------------------------------------------------------------------------
(* Properties of the CSV parser (SpecCSV) *)

\* the value of an amount text under the rightmost-separator rule: of ',' and '.',
\* the rightmost is the decimal separator and the other characters of the two are
\* grouping separators; a lone ',' is the decimal separator
SeparatorRuleValue(text) ==
    LET clean == keepAmountChars(text)
        lc == lastIndexOf(clean, Comma)
        ld == lastIndexOf(clean, Dot)
        dec == IF lc > ld THEN lc ELSE ld
        digitsOf(q) == SelectSeq(q, IsDigit)
        ip == IF dec = 0 THEN digitsOf(clean) ELSE digitsOf(SubSeq(clean, 1, dec - 1))
        fp == IF dec = 0 THEN <<>> ELSE digitsOf(SubSeq(clean, dec + 1, Len(clean)))
        mag == DigitsValue(ip \o fp)
    IN Norm(IF clean # <<>> /\ clean[1] = "-" THEN -mag ELSE mag, Len(fp))

\* C9: the amount cells "1.234,56", "1,234.56" and "45,90" of an otherwise valid row
\* yield the amounts 1234.56, 1234.56 and 45.90 (the rightmost separator is the
\* decimal one).
C9_AmountSeparators ==
    \A a \in {Str("\"1.234,56\""), Str("\"1,234.56\""), Str("\"45,90\"")} :
        (pc = "done" /\ content = CSVRowText(Str("15/01/2024"), Str("Uber"), a) \o Newline) =>
            /\ Len(results) = 1
            /\ results[1].amount = abs(SeparatorRuleValue(a))
            /\ SeparatorRuleValue(a) \in {Norm(123456, 2), Norm(4590, 2)}

IsRealISODay(s) ==
    /\ Len(s) = 10 /\ s[5] = "-" /\ s[8] = "-"
    /\ AllDigits(SubSeq(s, 1, 4)) /\ AllDigits(SubSeq(s, 6, 7)) /\ AllDigits(SubSeq(s, 9, 10))
    /\ IsCalendarDate(DigitsValue(SubSeq(s, 1, 4)), DigitsValue(SubSeq(s, 6, 7)),
                      DigitsValue(SubSeq(s, 9, 10)))

\* C10: every candidate parseCSV emits has a dateISO that is a real calendar date in
\* YYYY-MM-DD form (rows whose date cell is no valid date are skipped).
C10_DatesAreReal ==
    pc = "done" => \A i \in 1..Len(results) : IsRealISODay(results[i].dateISO)

=============================================================================
